---- MODULE Spec2Model ----
(***************************************************************************)
(* GestureMouse: the gesture detector of src/core/gesture_detector.py and  *)
(* the landmark geometry of src/core/hand_tracker.py as a state machine.   *)
(*                                                                         *)
(* Numbers.  Landmark coordinates are integers counted in a fixed unit;    *)
(* every landmark lies on an even multiple of the unit, so the halves the  *)
(* scroll midpoint takes are exact.  A Euclidean distance is carried as    *)
(* its square (get_distance_sq); the code only compares a quotient of two  *)
(* distances with a threshold, and for non-negative numbers                *)
(*      d / h < n / m   <=>   d^2 * m^2 < n^2 * h^2      (h > 0).          *)
(* A threshold on a quotient is a pair <<n, m>> standing for n / m.        *)
(* Time is counted in clock steps; time.time() is far above any debounce   *)
(* interval, so the clock starts at Epoch >= debounce_time.                *)
(***************************************************************************)
EXTENDS Integers, Sequences, FiniteSets, TLC

VARIABLES
    detector,     \* the GestureDetector object (its fields, state nested)
    now,          \* the last value time.time() returned
    op,           \* the operation that made this state
    hand,         \* the argument of the last detect_gesture
    event,        \* what the last detect_gesture returned
    pre,          \* the detector as the last operation found it
    clockReads,   \* the values time.time() returned during the last operation
    hist,         \* observations kept over several ticks
    filters,      \* one filter of each kind of utils/smoothing.py, and a SmoothingFilter
    mouse,        \* the MouseController object
    call,         \* the last call on the filters or the mouse controller
    trail,        \* observations kept over several calls on the filters
    app           \* the application of main.py: its threads and its settings

vars == <<detector, now, op, hand, event, pre, clockReads, hist,
          filters, mouse, call, trail, app>>

----------------------------------------------------------------------------
(* Bounds of the model *)

\* the clock stops at MaxTime
MaxTime == 4

\* configurations the detector is constructed with: click_debounce in clock
\* steps, pinch_threshold as a quotient, scroll_threshold in coordinate units
Debounces == {2}
PinchThresholds == {<<1, 2>>}
ScrollThresholds == {1}

\* what the clock shows when the detector is constructed
Epoch == CHOOSE t \in Debounces : \A d \in Debounces : d <= t

----------------------------------------------------------------------------
(* hand_tracker.py: HandLandmarks *)

WRIST == 0
THUMB_TIP == 4
INDEX_FINGER_PIP == 6
INDEX_FINGER_TIP == 8
MIDDLE_FINGER_MCP == 9
MIDDLE_FINGER_PIP == 10
MIDDLE_FINGER_TIP == 12
RING_FINGER_PIP == 14
RING_FINGER_TIP == 16
PINKY_PIP == 18
PINKY_TIP == 20

None == <<>>
ZeroPoint == <<0, 0, 0>>

\* hand is None
NoHand == [present |-> FALSE, points |-> <<>>]

\* a get_landmark that indexes the list as Python does below zero: from
\* the end
get_landmark_from_the_end(h, index) ==
    IF 0 <= index /\ index < Len(h.points)
    THEN h.points[index + 1]
    ELSE IF index < 0 /\ -index <= Len(h.points)
         THEN h.points[Len(h.points) + index + 1]
         ELSE ZeroPoint

get_landmark(h, index) ==
    IF 0 <= index /\ index < Len(h.points)
    THEN h.points[index + 1]
    ELSE ZeroPoint

Sq(n) == n * n

\* the square of get_distance
get_distance_sq(h, index1, index2) ==
    LET p1 == get_landmark(h, index1)
        p2 == get_landmark(h, index2)
    IN  Sq(p1[1] - p2[1]) + Sq(p1[2] - p2[2]) + Sq(p1[3] - p2[3])

\* index_tip[:2]
XY(p) == <<p[1], p[2]>>


----------------------------------------------------------------------------
(* The hands the landmark source delivers.  Hand(...) is the points list   *)
(* HandLandmarks.__init__ builds: 21 points, the fingers side by side (x = *)
(* 2, 4, 6, 8), the PIP joints at y = 4, a tip above its PIP joint (y = 0  *)
(* or 2) when stretched and below it (y = 6) when folded.                  *)

Hand(thumb, iy, my, ry, py, wy) ==
    [present |-> TRUE,
     points  |-> << <<4, wy, 0>>,                                  \* wrist
                    <<4, 10, 0>>, <<4, 10, 0>>, <<4, 10, 0>>, thumb,
                    <<2, 8, 0>>, <<2, 4, 0>>, <<2, 4, 0>>, <<2, iy, 0>>,
                    <<4, 8, 0>>, <<4, 4, 0>>, <<4, 4, 0>>, <<4, my, 0>>,
                    <<6, 8, 0>>, <<6, 4, 0>>, <<6, 4, 0>>, <<6, ry, 0>>,
                    <<8, 8, 0>>, <<8, 4, 0>>, <<8, 4, 0>>, <<8, py, 0>> >>]

\* where the thumb tip is: on the index tip, on the middle tip, between the
\* two tips at the height of the index tip, or away from both
ThumbAt(k, iy, my) ==
    CASE k = "index"   -> <<2, iy, 0>>
      [] k = "middle"  -> <<4, my, 0>>
      [] k = "between" -> <<3, iy, 0>>
      [] OTHER         -> <<10, 10, 0>>

\* <<where the thumb is, index tip y, middle tip y>>, ring and pinky folded
Poses ==
    { <<"away", 0, 0>>, <<"away", 0, 2>>, <<"away", 2, 2>>,      \* two fingers up
      <<"away", 0, 6>>, <<"away", 2, 6>>, <<"away", 6, 6>>,      \* index up, fist
      <<"index", 0, 0>>, <<"index", 0, 6>>,
      <<"middle", 0, 0>>, <<"middle", 0, 6>>,
      <<"between", 0, 0>> }

Hands ==
    \* ring and pinky folded, hand size 4
    { Hand(ThumbAt(p[1], p[2], p[3]), p[2], p[3], 6, 6, 12) : p \in Poses }
    \* ring or pinky stretched
    \cup { Hand(ThumbAt("away", 0, 0), 0, 0, r[1], r[2], 12) :
          r \in {<<2, 6>>, <<6, 2>>} }
    \* the thumb above the index tip in depth, at distance 2
    \cup { Hand(<<2, 0, 2>>, 0, 6, 6, 6, 12) }
    \* wrist on the middle-finger MCP: hand size 0
    \cup { Hand(ThumbAt("index", 0, 0), 0, 0, 6, 6, 8) }

----------------------------------------------------------------------------
(* gesture_detector.py: GestureType, GestureState *)

NONE == "none"
CURSOR_MOVE == "cursor_move"
LEFT_CLICK == "left_click"
RIGHT_CLICK == "right_click"
SCROLL == "scroll"

\* GestureState.__init__
GestureState(debounce_time) ==
    [current_gesture   |-> NONE,
     last_trigger_time |-> 0,
     debounce_time     |-> debounce_time,
     is_pinched        |-> FALSE,
     scroll_baseline   |-> None]

\* a can_trigger that forgets the debounce interval
can_trigger_without_debounce(state, t) ==
    t >= state.last_trigger_time

\* a can_trigger that wants more than the debounce interval
can_trigger_strict(state, t) ==
    (t - state.last_trigger_time) > state.debounce_time

\* GestureState.can_trigger, time.time() having returned t
can_trigger(state, t) ==
    (t - state.last_trigger_time) >= state.debounce_time

\* a trigger that does not record the time
trigger_not_recorded(state, t) == state

\* GestureState.trigger, time.time() having returned t
trigger(state, t) ==
    [state EXCEPT !.last_trigger_time = t]

----------------------------------------------------------------------------
(* gesture_detector.py: GestureDetector *)

\* GestureDetector.__init__
GestureDetector(pinch_threshold, scroll_threshold, click_debounce) ==
    [pinch_threshold  |-> pinch_threshold,
     scroll_threshold |-> scroll_threshold,
     state            |-> GestureState(click_debounce),
     prev_index_pos   |-> None,
     prev_scroll_pos  |-> None]

\* a normalized distance that defaults to 0.0 for a hand of size zero
is_pinch_default_zero(dist_sq, hand_size_sq, thr) ==
    IF hand_size_sq > 0
    THEN dist_sq * thr[2] * thr[2] < thr[1] * thr[1] * hand_size_sq
    ELSE 0 < thr[1]

\* (dist / hand_size if hand_size > 0 else 1.0) < pinch_threshold, on the
\* squares dist_sq and hand_size_sq, the threshold being thr[1] / thr[2]
is_pinch(dist_sq, hand_size_sq, thr) ==
    IF hand_size_sq > 0
    THEN dist_sq * thr[2] * thr[2] < thr[1] * thr[1] * hand_size_sq
    ELSE thr[2] < thr[1]

is_thumb_index_pinched(self, h) ==
    is_pinch(get_distance_sq(h, THUMB_TIP, INDEX_FINGER_TIP),
             get_distance_sq(h, WRIST, MIDDLE_FINGER_MCP),
             self.pinch_threshold)

is_thumb_middle_pinched(self, h) ==
    is_pinch(get_distance_sq(h, THUMB_TIP, MIDDLE_FINGER_TIP),
             get_distance_sq(h, WRIST, MIDDLE_FINGER_MCP),
             self.pinch_threshold)

\* GestureDetector._is_finger_extended
_is_finger_extended(h, finger_tip_idx) ==
    LET pip_idx == finger_tip_idx - 2
        tip_y == get_landmark(h, finger_tip_idx)[2]
        pip_y == get_landmark(h, pip_idx)[2]
    IN  tip_y < pip_y

\* scroll mode: index and middle extended, ring and pinky closed
scroll_mode(h) ==
    /\ _is_finger_extended(h, INDEX_FINGER_TIP)
    /\ _is_finger_extended(h, MIDDLE_FINGER_TIP)
    /\ ~_is_finger_extended(h, RING_FINGER_TIP)
    /\ ~_is_finger_extended(h, PINKY_TIP)

\* the midpoint between index and middle finger tip
scroll_midpoint(h) ==
    LET index_tip == get_landmark(h, INDEX_FINGER_TIP)
        middle_tip == get_landmark(h, MIDDLE_FINGER_TIP)
    IN  <<(index_tip[1] + middle_tip[1]) \div 2,
          (index_tip[2] + middle_tip[2]) \div 2>>

Abs(n) == IF n < 0 THEN -n ELSE n

Min(a, b) == IF a < b THEN a ELSE b

\* what detect_gesture hands back: the detector it leaves, the event it
\* returns and the number of time.time() calls it made
Returned(self, type, data, reads) ==
    [detector |-> self, event |-> [type |-> type, data |-> data], reads |-> reads]

\* a scroll rule that takes a move of exactly the threshold for motion
scroll_rule_not_strict(self, h, reads) ==
    LET scroll_pos == scroll_midpoint(h)
        delta_y == scroll_pos[2] - self.prev_scroll_pos[2]
        moved == [self EXCEPT !.prev_scroll_pos = scroll_pos]
    IN  IF self.prev_scroll_pos # None /\ Abs(delta_y) >= self.scroll_threshold
        THEN Returned(moved, SCROLL,
                      [delta_y |-> delta_y, position |-> scroll_pos], reads)
        ELSE Returned(moved, SCROLL,
                      [delta_y |-> 0, position |-> scroll_pos], reads)

\* detect_gesture from "Check if index and middle fingers are extended" on:
\* the scroll rule
scroll_rule(self, h, reads) ==
    LET scroll_pos == scroll_midpoint(h)
        delta_y == scroll_pos[2] - self.prev_scroll_pos[2]
        moved == [self EXCEPT !.prev_scroll_pos = scroll_pos]
    IN  IF self.prev_scroll_pos # None /\ Abs(delta_y) > self.scroll_threshold
        THEN Returned(moved, SCROLL,
                      [delta_y |-> delta_y, position |-> scroll_pos], reads)
        ELSE Returned(moved, SCROLL,
                      [delta_y |-> 0, position |-> scroll_pos], reads)

\* the square of the velocity of a cursor move
velocity_sq(self, position) ==
    IF self.prev_index_pos # None
    THEN Sq(position[1] - self.prev_index_pos[1])
       + Sq(position[2] - self.prev_index_pos[2])
    ELSE 0

\* detect_gesture from "Default: Cursor control with index finger" on
cursor_rule(self, h, reads) ==
    IF _is_finger_extended(h, INDEX_FINGER_TIP)
    THEN LET position == XY(get_landmark(h, INDEX_FINGER_TIP))
         IN  Returned([self EXCEPT !.prev_index_pos = position], CURSOR_MOVE,
                      [position |-> position,
                       velocity_sq |-> velocity_sq(self, position)], reads)
    ELSE Returned([self EXCEPT !.prev_index_pos = None], NONE, <<>>, reads)

\* motion rules that try the cursor rule before the scroll rule
motion_rules_cursor_first(self, h, reads) ==
    IF _is_finger_extended(h, INDEX_FINGER_TIP)
    THEN cursor_rule([self EXCEPT !.prev_scroll_pos = None], h, reads)
    ELSE IF scroll_mode(h)
         THEN scroll_rule(self, h, reads)
         ELSE cursor_rule([self EXCEPT !.prev_scroll_pos = None], h, reads)

\* detect_gesture after the click rules
motion_rules(self, h, reads) ==
    IF scroll_mode(h)
    THEN scroll_rule(self, h, reads)
    ELSE cursor_rule([self EXCEPT !.prev_scroll_pos = None], h, reads)

\* a right rule whose click clears the latch of the left rule
right_click_rule_unlatches(self, h, ts, reads) ==
    IF is_thumb_middle_pinched(self, h)
    THEN IF can_trigger(self.state, ts[reads + 1])
         THEN Returned([self EXCEPT
                           !.state = [trigger(self.state, ts[reads + 2])
                                         EXCEPT !.is_pinched = FALSE]],
                       RIGHT_CLICK,
                       [position |-> XY(get_landmark(h, MIDDLE_FINGER_TIP))],
                       reads + 2)
         ELSE motion_rules(self, h, reads + 1)
    ELSE motion_rules(self, h, reads)

\* detect_gesture from "Detect right click" on; ts[reads + 1] and
\* ts[reads + 2] are what the next calls of time.time() return
right_click_rule(self, h, ts, reads) ==
    IF is_thumb_middle_pinched(self, h)
    THEN IF can_trigger(self.state, ts[reads + 1])
         THEN Returned([self EXCEPT !.state = trigger(self.state, ts[reads + 2])],
                       RIGHT_CLICK,
                       [position |-> XY(get_landmark(h, MIDDLE_FINGER_TIP))],
                       reads + 2)
         ELSE motion_rules(self, h, reads + 1)
    ELSE motion_rules(self, h, reads)

\* a left click that does not latch
latch_forgotten(state) == state

\* a release that does not clear the latch
unlatch_forgotten(state) == state

\* a left rule that latches before it asks can_trigger
pinch_refused_latches(self) == [self EXCEPT !.state.is_pinched = TRUE]

\* self.state.is_pinched = True
latch(state) == [state EXCEPT !.is_pinched = TRUE]

\* self.state.is_pinched = False
unlatch(state) == [state EXCEPT !.is_pinched = FALSE]

\* a new pinch that can_trigger refuses: the if has no else, nothing is set
pinch_refused(self) == self

\* a no-hand branch that clears the latch
no_hand_unlatches(self) ==
    Returned([self EXCEPT !.state.current_gesture = NONE,
                          !.state.is_pinched = FALSE,
                          !.prev_index_pos = None,
                          !.prev_scroll_pos = None],
             NONE, <<>>, 0)

\* detect_gesture on a hand, from "Detect left click" on
left_click_rule(self, h, ts) ==
    IF is_thumb_index_pinched(self, h) /\ ~self.state.is_pinched
    THEN IF can_trigger(self.state, ts[1])
         THEN Returned([self EXCEPT !.state = trigger(latch(self.state), ts[2])],
                       LEFT_CLICK,
                       [position |-> XY(get_landmark(h, INDEX_FINGER_TIP))],
                       2)
         ELSE right_click_rule(pinch_refused(self), h, ts, 1)
    ELSE IF ~is_thumb_index_pinched(self, h)
         THEN right_click_rule([self EXCEPT !.state = unlatch(self.state)], h, ts, 0)
         ELSE right_click_rule(self, h, ts, 0)

\* a no-hand branch that keeps the scroll midpoint
no_hand_keeps_scroll_pos(self) ==
    Returned([self EXCEPT !.state.current_gesture = NONE,
                          !.prev_index_pos = None],
             NONE, <<>>, 0)

\* detect_gesture when hand is None
no_hand(self) ==
    Returned([self EXCEPT !.state.current_gesture = NONE,
                          !.prev_index_pos = None,
                          !.prev_scroll_pos = None],
             NONE, <<>>, 0)

\* GestureDetector.detect_gesture; ts are the values the calls of
\* time.time() return, in the order of the calls
detect_gesture(self, h, ts) ==
    IF ~h.present
    THEN no_hand(self)
    ELSE left_click_rule(self, h, ts)

\* a reset that keeps the latch and the stored scroll midpoint
reset_keeps_latch(self) ==
    [self EXCEPT !.state = [GestureState(self.state.debounce_time)
                               EXCEPT !.is_pinched = self.state.is_pinched],
                 !.prev_index_pos = None]

\* GestureDetector.reset
reset(self) ==
    [self EXCEPT !.state = GestureState(self.state.debounce_time),
                 !.prev_index_pos = None,
                 !.prev_scroll_pos = None]

----------------------------------------------------------------------------
(* Python floats.  A float is a pair <<m, e>> standing for m * 2^e, with m *)
(* odd, or <<0, 0>> for zero; its significand holds Precision bits (53 in  *)
(* the program).  Every arithmetic operation returns the exact result      *)
(* rounded to Precision bits, ties to the even significand, as IEEE 754    *)
(* arithmetic does.  The exponent is not bounded: no overflow to inf, no   *)
(* underflow, no nan.                                                      *)

\* bits of the significand of a float
Precision == 5

RECURSIVE Pow2(_)
Pow2(k) == IF k <= 0 THEN 1 ELSE 2 * Pow2(k - 1)

\* m * 2^e with the factors of two moved out of m
RECURSIVE FNorm(_, _)
FNorm(m, e) ==
    IF m = 0 THEN <<0, 0>>
    ELSE IF m % 2 = 0 THEN FNorm(m \div 2, e + 1)
    ELSE <<m, e>>

\* the number of bits of a >= 0
RECURSIVE BitLen(_)
BitLen(a) == IF a = 0 THEN 0 ELSE 1 + BitLen(a \div 2)

\* round to nearest, ties to even: the quotient q of a division by d that
\* left the remainder r
round_half_even(q, r, d) ==
    IF 2 * r > d \/ (2 * r = d /\ q % 2 = 1) THEN q + 1 ELSE q

\* n / d * 2^k for n, d > 0, as <<q, k'>> with q of Precision bits
RECURSIVE FQuot(_, _, _)
FQuot(n, d, k) ==
    IF n < Pow2(Precision - 1) * d THEN FQuot(2 * n, d, k - 1)
    ELSE IF n >= Pow2(Precision) * d THEN FQuot(n, 2 * d, k + 1)
    ELSE <<round_half_even(n \div d, n % d, d), k>>

\* the float nearest to n / d * 2^e, d > 0
\* (the arithmetic is on values: each operation is a function, applied to
\* the tuple of its operands)
FRoundOf[t \in Int \X Int \X Int] ==
    IF t[1] = 0 THEN <<0, 0>>
    ELSE LET q == FQuot(Abs(t[1]), t[2], t[3])
         IN  FNorm(IF t[1] < 0 THEN -q[1] ELSE q[1], q[2])
FRound(n, d, e) == FRoundOf[<<n, d, e>>]

\* float(n) of an int, and the float literal n/d
FromInt(n) == FRound(n, 1, 0)
Float(n, d) == FRound(n, d, 0)

FNeg(a) == <<-a[1], a[2]>>
FAbs(a) == <<Abs(a[1]), a[2]>>

\* a * b
FMulOf[t \in (Int \X Int) \X (Int \X Int)] ==
    FRound(t[1][1] * t[2][1], 1, t[1][2] + t[2][2])
FMul(a, b) == FMulOf[<<a, b>>]

\* a / b, b not zero
FDivOf[t \in (Int \X Int) \X (Int \X Int)] ==
    FRound(IF t[2][1] < 0 THEN -t[1][1] ELSE t[1][1], Abs(t[2][1]), t[1][2] - t[2][2])
FDiv(a, b) == FDivOf[<<a, b>>]

\* a + b; an operand more than 2 * Precision binary places below the other
\* is less than half the distance to the other's neighbours
FAddOf[t \in (Int \X Int) \X (Int \X Int)] ==
    IF t[1][1] = 0 THEN t[2]
    ELSE IF t[2][1] = 0 THEN t[1]
    ELSE IF t[1][2] - t[2][2] > 2 * Precision THEN t[1]
    ELSE IF t[2][2] - t[1][2] > 2 * Precision THEN t[2]
    ELSE IF t[1][2] >= t[2][2]
         THEN FRound(t[1][1] * Pow2(t[1][2] - t[2][2]) + t[2][1], 1, t[2][2])
         ELSE FRound(t[1][1] + t[2][1] * Pow2(t[2][2] - t[1][2]), 1, t[1][2])
FAdd(a, b) == FAddOf[<<a, b>>]

\* a - b
FSub(a, b) == FAdd(a, FNeg(b))

\* the sign of a - b: -1, 0 or 1 (exact, nothing is rounded)
FCmpOf[t \in (Int \X Int) \X (Int \X Int)] ==
    LET sa == IF t[1][1] > 0 THEN 1 ELSE IF t[1][1] < 0 THEN -1 ELSE 0
        sb == IF t[2][1] > 0 THEN 1 ELSE IF t[2][1] < 0 THEN -1 ELSE 0
        ta == t[1][2] + BitLen(Abs(t[1][1]))
        tb == t[2][2] + BitLen(Abs(t[2][1]))
        lo == Min(t[1][2], t[2][2])
        diff == t[1][1] * Pow2(t[1][2] - lo) - t[2][1] * Pow2(t[2][2] - lo)
    IN  IF sa # sb THEN (IF sa > sb THEN 1 ELSE -1)
        ELSE IF sa = 0 THEN 0
        ELSE IF ta # tb THEN (IF ta > tb THEN sa ELSE -sa)
        ELSE IF diff > 0 THEN 1 ELSE IF diff < 0 THEN -1 ELSE 0
FCmp(a, b) == FCmpOf[<<a, b>>]

FLess(a, b) == FCmp(a, b) < 0
FLessEq(a, b) == FCmp(a, b) <= 0

\* max(a, b) and min(a, b) of Python, on floats
FMaxOf[t \in (Int \X Int) \X (Int \X Int)] ==
    IF FLess(t[1], t[2]) THEN t[2] ELSE t[1]
FMax(a, b) == FMaxOf[<<a, b>>]

FMinOf[t \in (Int \X Int) \X (Int \X Int)] ==
    IF FLess(t[2], t[1]) THEN t[2] ELSE t[1]
FMin(a, b) == FMinOf[<<a, b>>]

\* round(a): the nearest integer, ties to the even one
FRoundInt(a) ==
    IF a[2] >= 0 THEN a[1] * Pow2(a[2])
    ELSE IF -a[2] > BitLen(Abs(a[1])) THEN 0
    ELSE LET d == Pow2(-a[2])
             q == round_half_even(Abs(a[1]) \div d, Abs(a[1]) % d, d)
         IN  IF a[1] < 0 THEN -q ELSE q

\* int(a): the integer part, towards zero
FTruncOf[t \in (Int \X Int)] ==
    IF t[2] >= 0 THEN t[1] * Pow2(t[2])
    ELSE IF -t[2] >= BitLen(Abs(t[1])) THEN 0
    ELSE IF t[1] < 0 THEN -((-t[1]) \div Pow2(-t[2]))
    ELSE t[1] \div Pow2(-t[2])
FTrunc(a) == FTruncOf[a]

----------------------------------------------------------------------------
(* utils/smoothing.py: the filters.  A method is an operator from the      *)
(* object (and the arguments) to [self |-> the object it leaves, value |-> *)
(* what it returns].                                                       *)

Zero == <<0, 0>>
One == FromInt(1)

\* max(0.0, min(1.0, x))
clamp_unit(x) == FMax(Zero, FMin(One, x))

\* ExponentialMovingAverage.__init__
ExponentialMovingAverage(alpha) ==
    [alpha |-> clamp_unit(alpha), value |-> None]

\* an update with the weights of the new and the old value exchanged
ema_update_weights_swapped(self, new_value) ==
    LET value == IF self.value = None
                 THEN new_value
                 ELSE FAdd(FMul(FSub(One, self.alpha), new_value),
                           FMul(self.alpha, self.value))
    IN  [self |-> [self EXCEPT !.value = value], value |-> value]

\* ExponentialMovingAverage.update
ema_update(self, new_value) ==
    LET value == IF self.value = None
                 THEN new_value
                 ELSE FAdd(FMul(self.alpha, new_value),
                           FMul(FSub(One, self.alpha), self.value))
    IN  [self |-> [self EXCEPT !.value = value], value |-> value]

\* a reset that keeps the value
ema_reset_keeps_value(self) == self

\* ExponentialMovingAverage.reset
ema_reset(self) == [self EXCEPT !.value = None]

\* collections.deque(maxlen=maxlen), empty
deque(maxlen) == [maxlen |-> maxlen, items |-> <<>>]

\* an append to a full deque that discards the new item
deque_append_keeps_oldest(d, x) ==
    IF Len(d.items) < d.maxlen
    THEN [d EXCEPT !.items = Append(d.items, x)]
    ELSE d

\* deque.append: a full deque discards the item at the other end
deque_append(d, x) ==
    IF d.maxlen = 0 THEN d
    ELSE IF Len(d.items) < d.maxlen
         THEN [d EXCEPT !.items = Append(d.items, x)]
         ELSE [d EXCEPT !.items = Append(Tail(d.items), x)]

\* a clear that removes the oldest item only
deque_clear_pops_one(d) ==
    [d EXCEPT !.items = IF d.items = <<>> THEN <<>> ELSE Tail(d.items)]

\* deque.clear
deque_clear(d) == [d EXCEPT !.items = <<>>]

\* sum(values) of floats: from the int 0, one addition per item, left to right
RECURSIVE sum_from(_, _)
sum_from(acc, items) ==
    IF items = <<>> THEN acc
    ELSE sum_from(FAdd(acc, Head(items)), Tail(items))

sum(items) == sum_from(Zero, items)

\* what a method that raises hands back as its value
ZeroDivisionError == <<"ZeroDivisionError">>

\* what a constructor that raises leaves in place of the object
ValueError == [raised |-> "ValueError"]

\* MovingAverageFilter.__init__: the deque is made with the window_size
\* given, not with the clamped one, and deque(maxlen=n) raises for n < 0
MovingAverageFilter(window_size) ==
    IF window_size < 0 THEN ValueError
    ELSE [window_size |-> IF window_size < 1 THEN 1 ELSE window_size,
          values      |-> deque(window_size)]

\* MovingAverageFilter.update that divides by the size of the window
ma_update_divides_by_window_size(self, new_value) ==
    LET values == deque_append(self.values, new_value)
    IN  [self  |-> [self EXCEPT !.values = values],
         value |-> FDiv(sum(values.items), FromInt(self.window_size))]

\* MovingAverageFilter.update
ma_update(self, new_value) ==
    LET values == deque_append(self.values, new_value)
    IN  [self  |-> [self EXCEPT !.values = values],
         value |-> IF Len(values.items) = 0
                   THEN ZeroDivisionError
                   ELSE FDiv(sum(values.items), FromInt(Len(values.items)))]

\* MovingAverageFilter.reset
ma_reset(self) == [self EXCEPT !.values = deque_clear(self.values)]

\* np.pi
Pi == Float(355, 113)

\* OneEuroFilter.__init__
OneEuroFilter(min_cutoff, beta, d_cutoff) ==
    [min_cutoff |-> min_cutoff, beta |-> beta, d_cutoff |-> d_cutoff,
     x_prev |-> None, dx_prev |-> Zero, t_prev |-> None]

\* OneEuroFilter._smoothing_factor
_smoothing_factor(dt, cutoff) ==
    LET r == FMul(FMul(FMul(FromInt(2), Pi), cutoff), dt)
    IN  FDiv(r, FAdd(r, One))

\* OneEuroFilter._exponential_smoothing
_exponential_smoothing(alpha, x, x_prev) ==
    FAdd(FMul(alpha, x), FMul(FSub(One, alpha), x_prev))

\* a time delta that is never less than 0.001
time_delta_at_least_epsilon(t, t_prev) ==
    LET dt == FSub(t, t_prev)
    IN  IF FLess(dt, Float(1, 1000)) THEN Float(1, 1000) ELSE dt

\* dt = t - self.t_prev, floored: "if dt <= 0: dt = 0.001"
time_delta(t, t_prev) ==
    LET dt == FSub(t, t_prev)
    IN  IF FLessEq(dt, Zero) THEN Float(1, 1000) ELSE dt

\* OneEuroFilter.update
one_euro_update(self, x, t) ==
    IF self.x_prev = None
    THEN [self |-> [self EXCEPT !.x_prev = x, !.t_prev = t], value |-> x]
    ELSE LET dt == time_delta(t, self.t_prev)
             dx == FDiv(FSub(x, self.x_prev), dt)
             alpha_d == _smoothing_factor(dt, self.d_cutoff)
             dx_smoothed == _exponential_smoothing(alpha_d, dx, self.dx_prev)
             cutoff == FAdd(self.min_cutoff, FMul(self.beta, FAbs(dx_smoothed)))
             alpha == _smoothing_factor(dt, cutoff)
             x_smoothed == _exponential_smoothing(alpha, x, self.x_prev)
         IN  [self  |-> [self EXCEPT !.x_prev = x_smoothed,
                                     !.dx_prev = dx_smoothed,
                                     !.t_prev = t],
              value |-> x_smoothed]

\* OneEuroFilter.reset
one_euro_reset(self) ==
    [self EXCEPT !.x_prev = None, !.dx_prev = Zero, !.t_prev = None]

\* KalmanFilter.__init__
KalmanFilter(process_variance, measurement_variance) ==
    [process_variance |-> process_variance,
     measurement_variance |-> measurement_variance,
     estimate |-> None, error_estimate |-> One]

\* an update that weighs the measurement, not its distance to the estimate
kalman_update_weighs_measurement(self, measurement) ==
    IF self.estimate = None
    THEN [self |-> [self EXCEPT !.estimate = measurement], value |-> measurement]
    ELSE LET error_prediction == FAdd(self.error_estimate, self.process_variance)
             kalman_gain == FDiv(error_prediction,
                                 FAdd(error_prediction, self.measurement_variance))
             estimate == FAdd(self.estimate, FMul(kalman_gain, measurement))
         IN  [self  |-> [self EXCEPT
                            !.estimate = estimate,
                            !.error_estimate =
                                FMul(FSub(One, kalman_gain), error_prediction)],
              value |-> estimate]

\* an update that predicts the error without the process variance
kalman_update_without_process_variance(self, measurement) ==
    IF self.estimate = None
    THEN [self |-> [self EXCEPT !.estimate = measurement], value |-> measurement]
    ELSE LET error_prediction == self.error_estimate
             kalman_gain == FDiv(error_prediction,
                                 FAdd(error_prediction, self.measurement_variance))
             estimate == FAdd(self.estimate,
                              FMul(kalman_gain, FSub(measurement, self.estimate)))
         IN  [self  |-> [self EXCEPT
                            !.estimate = estimate,
                            !.error_estimate =
                                FMul(FSub(One, kalman_gain), error_prediction)],
              value |-> estimate]

\* KalmanFilter.update
kalman_update(self, measurement) ==
    IF self.estimate = None
    THEN [self |-> [self EXCEPT !.estimate = measurement], value |-> measurement]
    ELSE LET prediction == self.estimate
             error_prediction == FAdd(self.error_estimate, self.process_variance)
             kalman_gain == FDiv(error_prediction,
                                 FAdd(error_prediction, self.measurement_variance))
             estimate == FAdd(prediction,
                              FMul(kalman_gain, FSub(measurement, prediction)))
         IN  [self  |-> [self EXCEPT
                            !.estimate = estimate,
                            !.error_estimate =
                                FMul(FSub(One, kalman_gain), error_prediction)],
              value |-> estimate]

\* KalmanFilter.reset that leaves error_estimate as it is
kalman_reset_keeps_error(self) ==
    [self EXCEPT !.estimate = None]

\* KalmanFilter.reset
kalman_reset(self) ==
    [self EXCEPT !.estimate = None, !.error_estimate = One]

----------------------------------------------------------------------------
(* core/mouse_controller.py: SmoothingFilter *)

\* SmoothingFilter.__init__
SmoothingFilter(alpha) ==
    [alpha |-> clamp_unit(alpha), smoothed_x |-> None, smoothed_y |-> None]

\* a SmoothingFilter.filter that adds alpha * current to the previous value
smoothing_filter_without_decay(self, x, y) ==
    LET unseeded == self.smoothed_x = None \/ self.smoothed_y = None
        smoothed_x == IF unseeded THEN x
                      ELSE FAdd(FMul(self.alpha, x), self.smoothed_x)
        smoothed_y == IF unseeded THEN y
                      ELSE FAdd(FMul(self.alpha, y), self.smoothed_y)
    IN  [self  |-> [self EXCEPT !.smoothed_x = smoothed_x,
                                !.smoothed_y = smoothed_y],
         value |-> <<smoothed_x, smoothed_y>>]

\* SmoothingFilter.filter
smoothing_filter(self, x, y) ==
    LET unseeded == self.smoothed_x = None \/ self.smoothed_y = None
        smoothed_x == IF unseeded THEN x
                      ELSE FAdd(FMul(self.alpha, x),
                                FMul(FSub(One, self.alpha), self.smoothed_x))
        smoothed_y == IF unseeded THEN y
                      ELSE FAdd(FMul(self.alpha, y),
                                FMul(FSub(One, self.alpha), self.smoothed_y))
    IN  [self  |-> [self EXCEPT !.smoothed_x = smoothed_x,
                                !.smoothed_y = smoothed_y],
         value |-> <<smoothed_x, smoothed_y>>]

\* SmoothingFilter.reset
smoothing_reset(self) ==
    [self EXCEPT !.smoothed_x = None, !.smoothed_y = None]

----------------------------------------------------------------------------
(* core/mouse_controller.py: MouseController.  screen is what              *)
(* pyautogui.size() returns, <<width, height>>.                            *)

\* MouseController.__init__
MouseController(sensitivity, smoothing, scroll_sensitivity, screen) ==
    [sensitivity        |-> sensitivity,
     smoothing_filter   |-> SmoothingFilter(smoothing),
     scroll_sensitivity |-> scroll_sensitivity,
     screen_width       |-> screen[1],
     screen_height      |-> screen[2],
     margin             |-> Float(1, 10)]

\* max(0, min(hi, n)) on ints
clamp_int(n, hi) == IF n < 0 THEN 0 ELSE IF n > hi THEN hi ELSE n

\* one axis of a map_to_screen that forgets the final clamp
map_axis_unclamped(self, x, screen_dim) ==
    LET adjusted == FDiv(FSub(x, self.margin),
                         FSub(One, FMul(FromInt(2), self.margin)))
    IN  FTrunc(FMul(FMul(clamp_unit(adjusted), FromInt(screen_dim)),
                    self.sensitivity))

\* one axis of a map_to_screen that rounds to the nearest integer
map_axis_rounded(self, x, screen_dim) ==
    LET adjusted == FDiv(FSub(x, self.margin),
                         FSub(One, FMul(FromInt(2), self.margin)))
    IN  clamp_int(FRoundInt(FMul(FMul(clamp_unit(adjusted), FromInt(screen_dim)),
                                 self.sensitivity)),
                  screen_dim - 1)

\* one axis of a map_to_screen that crops no margin
map_axis_without_margin(self, x, screen_dim) ==
    clamp_int(FTrunc(FMul(FMul(clamp_unit(x), FromInt(screen_dim)),
                          self.sensitivity)),
              screen_dim - 1)

\* MouseController.map_to_screen, one axis
map_axis(self, x, screen_dim) ==
    LET adjusted == FDiv(FSub(x, self.margin),
                         FSub(One, FMul(FromInt(2), self.margin)))
    IN  clamp_int(FTrunc(FMul(FMul(clamp_unit(adjusted), FromInt(screen_dim)),
                              self.sensitivity)),
                  screen_dim - 1)

\* MouseController.map_to_screen
map_to_screen(self, x, y) ==
    <<map_axis(self, x, self.screen_width), map_axis(self, y, self.screen_height)>>

\* a scroll amount with the sign of delta_y
scroll_amount_not_negated(self, delta_y) ==
    FTrunc(FMul(FMul(delta_y, self.scroll_sensitivity), FromInt(100)))

\* a scroll amount rounded to the nearest integer
scroll_amount_rounded(self, delta_y) ==
    FRoundInt(FMul(FMul(FNeg(delta_y), self.scroll_sensitivity), FromInt(100)))

\* scroll_amount = int(-delta_y * self.scroll_sensitivity * 100)
scroll_amount(self, delta_y) ==
    FTrunc(FMul(FMul(FNeg(delta_y), self.scroll_sensitivity), FromInt(100)))

\* MouseController.scroll: what it hands to the mouse-injection sink
scroll(self, delta_y) ==
    LET amount == scroll_amount(self, delta_y)
    IN  IF amount # 0
        THEN <<[op |-> "scroll", units |-> amount]>>
        ELSE <<>>

\* MouseController.click: what it hands to the mouse-injection sink
click(button) ==
    IF button = "left" THEN <<[op |-> "click"]>>
    ELSE IF button = "right" THEN <<[op |-> "rightClick"]>>
    ELSE <<>>

\* MouseController.move_cursor: the controller it leaves and what it hands
\* to the mouse-injection sink
move_cursor(self, x, y, smooth) ==
    LET screen == map_to_screen(self, x, y)
        r == smoothing_filter(self.smoothing_filter,
                              FromInt(screen[1]), FromInt(screen[2]))
    IN  IF smooth
        THEN [self |-> [self EXCEPT !.smoothing_filter = r.self],
              sink |-> <<[op |-> "moveTo", x |-> FTrunc(r.value[1]),
                          y |-> FTrunc(r.value[2])]>>]
        ELSE [self |-> self,
              sink |-> <<[op |-> "moveTo", x |-> screen[1], y |-> screen[2]]>>]

\* MouseController.reset_smoothing
reset_smoothing(self) ==
    [self EXCEPT !.smoothing_filter = smoothing_reset(self.smoothing_filter)]

\* MouseController.set_sensitivity
set_sensitivity(self, sensitivity) ==
    [self EXCEPT !.sensitivity = FMax(Float(1, 10), FMin(FromInt(5), sensitivity))]

\* MouseController.set_smoothing
set_smoothing(self, smoothing) ==
    [self EXCEPT !.smoothing_filter.alpha = clamp_unit(smoothing)]

----------------------------------------------------------------------------
(* What the filters and the mouse controller are constructed with, and     *)
(* what they are given.                                                    *)

\* updates between two resets
MaxUpdates == 3

\* the defaults of the constructors of utils/smoothing.py
DefaultFilters ==
    [alpha |-> Float(3, 10), window_size |-> 5,
     min_cutoff |-> One, beta |-> Float(7, 1000), d_cutoff |-> One,
     process_variance |-> Float(1, 100000), measurement_variance |-> Float(1, 10)]

\* constructor arguments: alpha below, in and above [0, 1], windows of 1, 2
\* and 3 samples, two pairs of variances
FilterConfigs ==
    { DefaultFilters,
      [DefaultFilters EXCEPT !.alpha = Zero, !.window_size = 1],
      [DefaultFilters EXCEPT !.alpha = One, !.window_size = 2],
      [DefaultFilters EXCEPT !.alpha = Float(-1, 2), !.window_size = 3,
                             !.process_variance = One,
                             !.measurement_variance = Float(1, 2)],
      [DefaultFilters EXCEPT !.alpha = Float(3, 2), !.window_size = 2,
                             !.beta = Zero] }

\* one filter of each kind, constructed with c
FilterBank(c) ==
    [ema            |-> ExponentialMovingAverage(c.alpha),
     moving_average |-> MovingAverageFilter(c.window_size),
     one_euro       |-> OneEuroFilter(c.min_cutoff, c.beta, c.d_cutoff),
     kalman         |-> KalmanFilter(c.process_variance, c.measurement_variance),
     smoothing      |-> SmoothingFilter(c.alpha)]

\* a sample: the value v at the time t for the filters, the point (v, y) for
\* the SmoothingFilter, a hand for the detector.  The times are 0, 1 and
\* 2^-11 (less than 0.001 after 0): two samples in a row can be the same
\* time, a time going back, a time less than 0.001 later, or a second later
Samples ==
    { [v |-> Float(1, 10), t |-> Zero, y |-> One,
       hand |-> Hand(ThumbAt("index", 0, 0), 0, 0, 6, 6, 12)],
      [v |-> FromInt(7), t |-> One, y |-> Zero,
       hand |-> Hand(ThumbAt("away", 0, 6), 0, 6, 6, 6, 12)],
      [v |-> Float(-3, 2), t |-> Float(1, 2048), y |-> Float(1, 2),
       hand |-> NoHand] }

\* every filter updated with the sample s
update_all(bank, s) ==
    LET ema == ema_update(bank.ema, s.v)
        moving_average == ma_update(bank.moving_average, s.v)
        one_euro == one_euro_update(bank.one_euro, s.v, s.t)
        kalman == kalman_update(bank.kalman, s.v)
        smoothing == smoothing_filter(bank.smoothing, s.v, s.y)
    IN  [self  |-> [ema |-> ema.self, moving_average |-> moving_average.self,
                    one_euro |-> one_euro.self, kalman |-> kalman.self,
                    smoothing |-> smoothing.self],
         value |-> [ema |-> ema.value, moving_average |-> moving_average.value,
                    one_euro |-> one_euro.value, kalman |-> kalman.value,
                    smoothing |-> smoothing.value]]

\* every filter reset
reset_all(bank) ==
    [ema            |-> ema_reset(bank.ema),
     moving_average |-> ma_reset(bank.moving_average),
     one_euro       |-> one_euro_reset(bank.one_euro),
     kalman         |-> kalman_reset(bank.kalman),
     smoothing      |-> smoothing_reset(bank.smoothing)]

\* sensitivity, scroll_sensitivity and pyautogui.size() of a MouseController
Sensitivities == {Float(-1, 1), Zero, Float(1, 2), One, Float(3, 2), FromInt(5)}
ScrollSensitivities == {FromInt(5), Float(1, 2)}
Screens == {<<1, 1>>, <<3, 2>>, <<8, 5>>}

\* normalized coordinates in [0, 1], the margin and 1 - margin among them,
\* and scroll deltas
Coordinates ==
    {Zero, Float(1, 10), Float(3, 10), Float(7, 8), Float(9, 10), One}
Deltas == {Zero, Float(1, 16), Float(-1, 16), Float(3, 100), Float(-1, 4)}

NoCall == [op |-> "init"]

\* the application before tracking is started
NoApp == [is_tracking |-> FALSE]

\* What is kept over the calls on the filters:
\*   config        the arguments the filters were constructed with
\*   inputs        the values given since construction or the last reset
\*   before_reset  the last value given before the last reset that followed
\*                 an update (None when there was none)
NoTrail == [config |-> DefaultFilters, inputs |-> <<>>, before_reset |-> None]

----------------------------------------------------------------------------
(* The state machine: one detector, driven one operation at a time *)

NoEvent == [type |-> NONE, data |-> <<>>]

\* the values three successive calls of time.time() can return after the
\* clock showed t: the clock never goes back, and moves at most one step
\* from one call to the next
ClockReads(t) ==
    { <<t1, t2, t3>> : t1 \in t..Min(t + 1, MaxTime),
                       t2 \in t..Min(t + 2, MaxTime),
                       t3 \in t..Min(t + 3, MaxTime) }

\* each call returns the value of the call before it, or one step more
Steady(t, ts) ==
    /\ ts[1] <= ts[2] /\ ts[2] <= ts[1] + 1
    /\ ts[2] <= ts[3] /\ ts[3] <= ts[2] + 1

\* the calls a tick did not make return nothing: keep one representative
Unread(t, ts, reads) ==
    /\ reads < 1 => ts[1] = t
    /\ reads < 2 => ts[2] = ts[1]
    /\ reads < 3 => ts[3] = ts[2]

\* The observations.  About the hand of a tick, in the words of the
\* specification: the normalized thumb-to-tip distance is below the pinch
\* threshold thr (1.0 standing in for a hand of size zero)
Below(h, tip, thr) ==
    LET a == h.points[THUMB_TIP + 1]
        b == h.points[tip + 1]
        w == h.points[WRIST + 1]
        m == h.points[MIDDLE_FINGER_MCP + 1]
        dist_sq == Sq(a[1] - b[1]) + Sq(a[2] - b[2]) + Sq(a[3] - b[3])
        size_sq == Sq(w[1] - m[1]) + Sq(w[2] - m[2]) + Sq(w[3] - m[3])
    IN  IF size_sq = 0
        THEN Sq(thr[2]) < Sq(thr[1])
        ELSE dist_sq * Sq(thr[2]) < Sq(thr[1]) * size_sq

\* the tip of a finger is higher in the frame than its PIP joint
Extended(h, tip) == h.points[tip + 1][2] < h.points[tip - 1][2]

\* index and middle extended, ring and pinky not extended
ScrollCondition(h) ==
    /\ Extended(h, INDEX_FINGER_TIP) /\ Extended(h, MIDDLE_FINGER_TIP)
    /\ ~Extended(h, RING_FINGER_TIP) /\ ~Extended(h, PINKY_TIP)

\* What is kept over the ticks since construction or the last reset:
\*   clicks     the clicks emitted, oldest first, each with its trigger time
\*   released   a hand with the thumb off the index tip was seen since the
\*              last LeftClick (was_released: before the last operation)
\*   run_left   the LeftClicks emitted in the current run of hand-present
\*              ticks with the thumb-index distance below the threshold
\*   run_open   on some tick of that run the latch was clear and the
\*              debounce allowed a trigger when the left rule asked
\*   ended_left, ended_open   run_left and run_open of the run the last
\*              operation ended; ended_left = -1 when it ended none
\*   run_right  the RightClicks emitted in the current run of hand-present
\*              ticks with the thumb-middle distance below the threshold
\*   scroll_mode, scroll_before   the scroll condition held on the hand of
\*              the last operation, and of the one before it
NoHist ==
    [clicks |-> <<>>, released |-> FALSE, was_released |-> FALSE,
     run_left |-> 0, run_open |-> FALSE, in_run |-> FALSE,
     ended_left |-> -1, ended_open |-> FALSE, run_right |-> 0,
     scroll_mode |-> FALSE, scroll_before |-> FALSE]

Observe(old, self, h, r, ts) ==
    LET left == r.event.type = LEFT_CLICK
        right == r.event.type = RIGHT_CLICK
        index_below == h.present /\ Below(h, INDEX_FINGER_TIP, self.pinch_threshold)
        middle_below == h.present /\ Below(h, MIDDLE_FINGER_TIP, self.pinch_threshold)
        asked == index_below /\ ~self.state.is_pinched
        allowed == asked /\ ts[1] - self.state.last_trigger_time >= self.state.debounce_time
        ends == old.in_run /\ ~index_below
    IN  [clicks       |-> IF left \/ right
                          THEN Append(old.clicks,
                                      [kind |-> r.event.type,
                                       at |-> r.detector.state.last_trigger_time])
                          ELSE old.clicks,
         released     |-> IF left THEN FALSE
                          ELSE old.released \/ (h.present /\ ~index_below),
         was_released |-> old.released,
         in_run       |-> index_below,
         run_left     |-> IF ~index_below THEN 0
                          ELSE old.run_left + (IF left THEN 1 ELSE 0),
         run_open     |-> index_below /\ (old.run_open \/ allowed),
         ended_left   |-> IF ends THEN old.run_left ELSE -1,
         ended_open   |-> ends /\ old.run_open,
         run_right    |-> IF ~middle_below THEN 0
                          ELSE old.run_right + (IF right THEN 1 ELSE 0),
         scroll_mode  |-> h.present /\ ScrollCondition(h),
         scroll_before |-> old.scroll_mode]

\* the detector after construction
DetectorInit ==
    /\ \E pt \in PinchThresholds, st \in ScrollThresholds, cd \in Debounces :
           detector = GestureDetector(pt, st, cd)
    /\ now = Epoch
    /\ op = "init"
    /\ hand = NoHand
    /\ event = NoEvent
    /\ pre = detector
    /\ clockReads = <<>>
    /\ hist = NoHist

\* the filters and the mouse controller constructed with their defaults,
\* on the smallest screen
Idle ==
    /\ filters = FilterBank(DefaultFilters)
    /\ mouse = MouseController(Float(3, 2), Float(3, 10), FromInt(5), <<1, 1>>)
    /\ call = NoCall
    /\ app = NoApp
    /\ trail = NoTrail

Init == DetectorInit /\ Idle

\* detect_gesture(h), time.time() returning ts
Detected(h, ts) ==
    LET r == detect_gesture(detector, h, ts)
    IN  /\ Steady(now, ts)
        /\ Unread(now, ts, r.reads)
        /\ detector' = r.detector
        /\ now' = IF r.reads = 0 THEN now ELSE ts[r.reads]
        /\ op' = "detect_gesture"
        /\ hand' = h
        /\ event' = r.event
        /\ pre' = detector
        /\ clockReads' = SubSeq(ts, 1, r.reads)
        /\ hist' = Observe(hist, detector, h, r, ts)

\* one tick: detect_gesture(hand) on a hand of the landmark source or None
DetectGesture ==
    /\ \E h \in Hands \cup {NoHand}, ts \in ClockReads(now) : Detected(h, ts)
    /\ UNCHANGED <<filters, mouse, call, trail, app>>

\* GestureDetector.reset(); kept is what stays of the observations
ResetDetector(kept) ==
    /\ detector' = reset(detector)
    /\ op' = "reset"
    /\ hand' = NoHand
    /\ event' = NoEvent
    /\ pre' = detector
    /\ clockReads' = <<>>
    /\ hist' = kept
    /\ UNCHANGED now

\* reset()
Reset ==
    /\ ResetDetector(NoHist)
    /\ UNCHANGED <<filters, mouse, call, trail, app>>

Next == DetectGesture \/ Reset

Spec == Init /\ [][Next]_vars

----------------------------------------------------------------------------
(* The detector over its whole life: the last click is remembered over a   *)
(* reset.                                                                  *)

\* pinch thresholds below, at and above 1.0
LifeThresholds == {<<1, 2>>, <<1, 1>>, <<3, 2>>}

\* an open hand, the thumb on the index tip, the thumb on the middle tip;
\* and two hands of size zero (the wrist on the middle-finger MCP), the
\* thumb on the index tip and away from the tips
LifeHands ==
    { Hand(ThumbAt(p[1], p[2], p[3]), p[2], p[3], 6, 6, 12) :
        p \in {<<"away", 0, 6>>, <<"index", 0, 6>>, <<"middle", 0, 6>>} }
    \cup { Hand(ThumbAt(k, 0, 6), 0, 6, 6, 6, 8) : k \in {"index", "away"} }

\* the clicks, without all but the last
LastClick(clicks) ==
    IF clicks = <<>> THEN <<>> ELSE <<clicks[Len(clicks)]>>

\* the detector constructed with any of the thresholds
LifeInit ==
    /\ \E pt \in LifeThresholds, st \in ScrollThresholds, cd \in Debounces :
           detector = GestureDetector(pt, st, cd)
    /\ now = Epoch
    /\ op = "init"
    /\ hand = NoHand
    /\ event = NoEvent
    /\ pre = detector
    /\ clockReads = <<>>
    /\ hist = NoHist
    /\ Idle

LifeDetect ==
    /\ \E h \in LifeHands \cup {NoHand}, ts \in ClockReads(now) : Detected(h, ts)
    /\ UNCHANGED <<filters, mouse, call, trail, app>>

LifeReset ==
    /\ ResetDetector([NoHist EXCEPT !.clicks = LastClick(hist.clicks)])
    /\ UNCHANGED <<filters, mouse, call, trail, app>>

LifeNext == LifeDetect \/ LifeReset

Life == LifeInit /\ [][LifeNext]_vars

----------------------------------------------------------------------------
(* The filters, driven one call at a time.  One stream of samples feeds    *)
(* one filter of each kind, a SmoothingFilter and the detector; reset() is *)
(* called on all of them together.                                         *)

ComponentsInit ==
    /\ DetectorInit
    /\ \E c \in FilterConfigs :
           /\ filters = FilterBank(c)
           /\ trail = [NoTrail EXCEPT !.config = c]
    /\ mouse = MouseController(Float(3, 2), Float(3, 10), FromInt(5), <<1, 1>>)
    /\ call = NoCall
    /\ app = NoApp

\* update(v) on every filter (update(v, t) on the One-Euro filter),
\* filter(v, y) on the SmoothingFilter, detect_gesture(hand) on the detector
Feed ==
    /\ Len(trail.inputs) < MaxUpdates
    /\ \E s \in Samples :
           LET r == update_all(filters, s)
           IN  /\ Detected(s.hand, <<now, now, now>>)
               /\ filters' = r.self
               /\ call' = [op |-> "update", sample |-> s, value |-> r.value,
                           before |-> filters,
                           previous |-> IF call.op = "update" THEN call.value
                                        ELSE None]
               /\ trail' = [trail EXCEPT !.inputs = Append(@, s.v)]
    /\ UNCHANGED <<mouse, app>>

\* reset() on every filter and on the detector
ResetAll ==
    /\ ResetDetector(NoHist)
    /\ filters' = reset_all(filters)
    /\ call' = [op |-> "reset", before |-> filters]
    /\ trail' = [trail EXCEPT
                    !.inputs = <<>>,
                    !.before_reset = IF trail.inputs = <<>>
                                     THEN @
                                     ELSE trail.inputs[Len(trail.inputs)]]
    /\ UNCHANGED <<mouse, app>>

ComponentsNext == Feed \/ ResetAll

Components == ComponentsInit /\ [][ComponentsNext]_vars

----------------------------------------------------------------------------
(* The moving average alone, constructed with any window_size *)

WindowSizes == {-1, 0, 1, 2, 3}

\* the constructor returned an object
Constructed(self) == "raised" \notin DOMAIN self

WindowsInit ==
    /\ DetectorInit
    /\ \E w \in WindowSizes :
           /\ filters = [FilterBank(DefaultFilters) EXCEPT
                            !.moving_average = MovingAverageFilter(w)]
           /\ trail = [NoTrail EXCEPT !.config.window_size = w]
    /\ mouse = MouseController(Float(3, 2), Float(3, 10), FromInt(5), <<1, 1>>)
    /\ call = NoCall
    /\ app = NoApp

\* update(v) on the moving average
WindowUpdate ==
    /\ Constructed(filters.moving_average)
    /\ Len(trail.inputs) < MaxUpdates
    /\ \E s \in Samples :
           LET r == ma_update(filters.moving_average, s.v)
           IN  /\ filters' = [filters EXCEPT !.moving_average = r.self]
               /\ call' = [op |-> "update", sample |-> s, value |-> r.value,
                           before |-> filters.moving_average]
               /\ trail' = [trail EXCEPT !.inputs = Append(@, s.v)]
    /\ UNCHANGED <<detector, now, op, hand, event, pre, clockReads, hist, mouse, app>>

\* reset() on the moving average
WindowReset ==
    /\ Constructed(filters.moving_average)
    /\ filters' = [filters EXCEPT !.moving_average = ma_reset(@)]
    /\ call' = [op |-> "reset", before |-> filters.moving_average]
    /\ trail' = [trail EXCEPT !.inputs = <<>>]
    /\ UNCHANGED <<detector, now, op, hand, event, pre, clockReads, hist, mouse, app>>

WindowsNext == WindowUpdate \/ WindowReset

Windows == WindowsInit /\ [][WindowsNext]_vars

----------------------------------------------------------------------------
(* HandLandmarks.get_landmark, called with any index on landmark sets of    *)
(* 21 points, of one point and of none.                                    *)

LandmarkSets ==
    LifeHands
    \cup { [present |-> TRUE, points |-> SubSeq(h.points, 1, n)] :
             h \in {Hand(<<2, 0, 2>>, 0, 6, 6, 6, 12)}, n \in {0, 1} }

\* from below -21 to above 20
Indexes == -23 .. 22

LandmarksInit ==
    /\ DetectorInit
    /\ Idle

\* HandLandmarks(...).get_landmark(index)
GetLandmark ==
    /\ \E h \in LandmarkSets, index \in Indexes :
           /\ hand' = h
           /\ call' = [op |-> "get_landmark", index |-> index,
                       value |-> get_landmark(h, index)]
    /\ op' = "get_landmark"
    /\ UNCHANGED <<detector, now, event, pre, clockReads, hist,
                   filters, mouse, trail, app>>

Landmarks == LandmarksInit /\ [][GetLandmark]_vars

----------------------------------------------------------------------------
(* The mouse controller, driven one call at a time *)

MouseInit ==
    /\ DetectorInit
    /\ filters = FilterBank(DefaultFilters)
    /\ \E sensitivity \in Sensitivities, scroll_sensitivity \in ScrollSensitivities,
          screen \in Screens :
           mouse = MouseController(sensitivity, Float(3, 10), scroll_sensitivity, screen)
    /\ call = NoCall
    /\ app = NoApp
    /\ trail = NoTrail

\* map_to_screen(x, y)
MapToScreen ==
    /\ \E x \in Coordinates, y \in Coordinates :
           call' = [op |-> "map_to_screen", x |-> x, y |-> y,
                    value |-> map_to_screen(mouse, x, y)]
    /\ UNCHANGED <<detector, now, op, hand, event, pre, clockReads, hist,
                   filters, mouse, trail, app>>

\* scroll(delta_y)
Scroll ==
    /\ \E delta_y \in Deltas :
           call' = [op |-> "scroll", delta_y |-> delta_y,
                    sink |-> scroll(mouse, delta_y)]
    /\ UNCHANGED <<detector, now, op, hand, event, pre, clockReads, hist,
                   filters, mouse, trail, app>>

\* set_sensitivity(sensitivity)
SetSensitivity ==
    /\ \E sensitivity \in Sensitivities :
           /\ mouse' = set_sensitivity(mouse, sensitivity)
           /\ call' = [op |-> "set_sensitivity", sensitivity |-> sensitivity]
    /\ UNCHANGED <<detector, now, op, hand, event, pre, clockReads, hist,
                   filters, trail, app>>

MouseNext == MapToScreen \/ Scroll \/ SetSensitivity

Mouse == MouseInit /\ [][MouseNext]_vars

----------------------------------------------------------------------------
(* The mouse controller moving the cursor, its settings changed between    *)
(* the moves *)

\* where the index tip is: two corners of the frame and a point inside
Points ==
    { <<Zero, One>>, <<One, Zero>>, <<Float(1, 2), Float(3, 10)>> }

\* arguments of set_smoothing: below and above [0, 1]
Smoothings == {Float(-1, 2), Float(3, 2)}

\* moves of the cursor between two resets of the smoothing
MaxMoves == 2

CursorInit ==
    /\ DetectorInit
    /\ filters = FilterBank(DefaultFilters)
    /\ mouse = MouseController(Float(-1, 1), Float(3, 10), FromInt(5), <<8, 5>>)
    /\ call = NoCall
    /\ app = NoApp
    /\ trail = NoTrail

\* move_cursor(x, y, smooth)
MoveCursor ==
    /\ Len(trail.inputs) < MaxMoves
    /\ \E p \in Points, smooth \in BOOLEAN :
           LET r == move_cursor(mouse, p[1], p[2], smooth)
           IN  /\ mouse' = r.self
               /\ call' = [op |-> "move_cursor", x |-> p[1], y |-> p[2],
                           smooth |-> smooth, sink |-> r.sink]
               /\ trail' = [trail EXCEPT !.inputs = Append(@, p[1])]
    /\ UNCHANGED <<detector, now, op, hand, event, pre, clockReads, hist,
                   filters, app>>

\* set_smoothing(smoothing)
SetSmoothing ==
    /\ \E smoothing \in Smoothings :
           /\ mouse' = set_smoothing(mouse, smoothing)
           /\ call' = [op |-> "set_smoothing", smoothing |-> smoothing]
    /\ UNCHANGED <<detector, now, op, hand, event, pre, clockReads, hist,
                   filters, trail, app>>

\* reset_smoothing()
ResetSmoothing ==
    /\ mouse' = reset_smoothing(mouse)
    /\ call' = [op |-> "reset_smoothing"]
    /\ trail' = [trail EXCEPT !.inputs = <<>>]
    /\ UNCHANGED <<detector, now, op, hand, event, pre, clockReads, hist,
                   filters, app>>

CursorNext == MoveCursor \/ SetSensitivity \/ SetSmoothing \/ ResetSmoothing

Cursor == CursorInit /\ [][CursorNext]_vars

----------------------------------------------------------------------------
(* main.py: the tracking worker in its thread and the GUI thread.  The     *)
(* worker runs TrackingWorker.run, one tick after the other; the GUI       *)
(* thread runs the handlers of the two sliders, which call                 *)
(* TrackingWorker.update_mouse_settings themselves.  No lock is taken, so  *)
(* the steps of the two threads interleave; a step is the code between two *)
(* accesses to the fields of the mouse controller that the other thread    *)
(* touches.                                                                 *)

\* ticks of the worker that are followed
MaxTicks == 2

\* a coordinate of a landmark as a fraction of the frame: the unit of the
\* landmark coordinates is an eighth of the frame
Normalized(n) == Float(n, 8)

\* positions of the two sliders (each goes from 1 to 10)
SliderValues == {1, 10}

\* the index finger alone at two heights, the thumb on the index tip, and
\* the scroll pose at two heights
ThreadHands ==
    { Hand(ThumbAt(p[1], p[2], p[3]), p[2], p[3], 6, 6, 12) :
        p \in {<<"away", 0, 6>>, <<"away", 2, 6>>, <<"index", 0, 6>>,
               <<"away", 0, 0>>, <<"away", 2, 2>>} }

\* the application after _start_tracking: the worker initialized from the
\* configuration, its thread started
Tracking ==
    [is_tracking |-> TRUE,
     config |-> [mouse |-> [sensitivity |-> Float(3, 2), smoothing |-> Float(3, 10)],
                 gestures |-> [cursor_control_enabled |-> TRUE,
                               left_click_enabled |-> TRUE,
                               right_click_enabled |-> TRUE,
                               scroll_enabled |-> TRUE]],
     worker |-> [pc |-> "loop", ticks |-> 0, screen_x |-> 0, screen_y |-> 0,
                 sensitivity_x |-> None],
     gui |-> [pc |-> "idle", smoothing |-> None]]

ThreadsInit ==
    /\ DetectorInit
    /\ filters = FilterBank(DefaultFilters)
    /\ mouse = MouseController(Tracking.config.mouse.sensitivity,
                               Tracking.config.mouse.smoothing, FromInt(5), <<8, 5>>)
    /\ call = NoCall
    /\ trail = NoTrail
    /\ app = Tracking

\* run, from the top of the loop to the return of detect_gesture
WorkerDetect ==
    /\ app.worker.pc = "loop"
    /\ app.worker.ticks < MaxTicks
    /\ \E h \in ThreadHands \cup {NoHand} : Detected(h, <<now, now, now>>)
    /\ app' = [app EXCEPT !.worker.pc = "execute", !.worker.ticks = @ + 1]
    /\ UNCHANGED <<filters, mouse, call, trail>>

\* _execute_gesture left-clicks whether left clicks are enabled or not
_execute_gesture_left_unchecked(gesture_config, gesture_type, gesture_data) ==
    IF gesture_type = CURSOR_MOVE /\ gesture_config.cursor_control_enabled
    THEN [gesture_name |-> "Cursor Move", calls |-> "move_cursor"]
    ELSE IF gesture_type = LEFT_CLICK
    THEN [gesture_name |-> "Left Click", calls |-> "click_left"]
    ELSE IF gesture_type = RIGHT_CLICK /\ gesture_config.right_click_enabled
    THEN [gesture_name |-> "Right Click", calls |-> "click_right"]
    ELSE IF gesture_type = SCROLL /\ gesture_config.scroll_enabled
    THEN IF gesture_data.delta_y # 0
         THEN [gesture_name |-> "Scrolling", calls |-> "scroll"]
         ELSE [gesture_name |-> "Scroll Mode", calls |-> "nothing"]
    ELSE [gesture_name |-> "None", calls |-> "nothing"]

\* TrackingWorker._execute_gesture: the name it returns and the method of
\* the mouse controller it calls
_execute_gesture(gesture_config, gesture_type, gesture_data) ==
    IF gesture_type = CURSOR_MOVE /\ gesture_config.cursor_control_enabled
    THEN [gesture_name |-> "Cursor Move", calls |-> "move_cursor"]
    ELSE IF gesture_type = LEFT_CLICK /\ gesture_config.left_click_enabled
    THEN [gesture_name |-> "Left Click", calls |-> "click_left"]
    ELSE IF gesture_type = RIGHT_CLICK /\ gesture_config.right_click_enabled
    THEN [gesture_name |-> "Right Click", calls |-> "click_right"]
    ELSE IF gesture_type = SCROLL /\ gesture_config.scroll_enabled
    THEN IF gesture_data.delta_y # 0
         THEN [gesture_name |-> "Scrolling", calls |-> "scroll"]
         ELSE [gesture_name |-> "Scroll Mode", calls |-> "nothing"]
    ELSE [gesture_name |-> "None", calls |-> "nothing"]

\* _execute_gesture; for a cursor move up to "screen_x = int(x_adjusted *
\* self.screen_width * self.sensitivity)" of map_to_screen
WorkerExecute ==
    /\ app.worker.pc = "execute"
    /\ LET gesture_config == app.config.gestures
           r == _execute_gesture(gesture_config, event.type, event.data)
       IN  /\ app' = IF r.calls = "move_cursor"
                     THEN [app EXCEPT
                              !.worker.pc = "map_y",
                              !.worker.screen_x =
                                  map_axis(mouse, Normalized(event.data.position[1]),
                                           mouse.screen_width),
                              !.worker.sensitivity_x = mouse.sensitivity]
                     ELSE [app EXCEPT !.worker.pc = "loop"]
           /\ call' = [op |-> "_execute_gesture",
                       gesture_config |-> gesture_config,
                       gesture_name |-> r.gesture_name,
                       sink |-> CASE r.calls = "click_left" -> click("left")
                                  [] r.calls = "click_right" -> click("right")
                                  [] r.calls = "scroll" ->
                                         scroll(mouse, Normalized(event.data.delta_y))
                                  [] OTHER -> <<>>]
    /\ UNCHANGED <<detector, now, op, hand, event, pre, clockReads, hist,
                   filters, mouse, trail>>

\* "screen_y = int(y_adjusted * self.screen_height * self.sensitivity)" and
\* the clamps of map_to_screen
WorkerMapY ==
    /\ app.worker.pc = "map_y"
    /\ app' = [app EXCEPT
                  !.worker.pc = "filter",
                  !.worker.screen_y =
                      map_axis(mouse, Normalized(event.data.position[2]),
                               mouse.screen_height)]
    /\ UNCHANGED <<detector, now, op, hand, event, pre, clockReads, hist,
                   filters, mouse, call, trail>>

\* the rest of move_cursor: the smoothing filter and pyautogui.moveTo
WorkerFilter ==
    /\ app.worker.pc = "filter"
    /\ LET r == smoothing_filter(mouse.smoothing_filter,
                                 FromInt(app.worker.screen_x),
                                 FromInt(app.worker.screen_y))
       IN  /\ mouse' = [mouse EXCEPT !.smoothing_filter = r.self]
           /\ call' = [op |-> "move_cursor",
                       gesture_config |-> call.gesture_config,
                       gesture_name |-> call.gesture_name,
                       sensitivity |-> <<app.worker.sensitivity_x, mouse.sensitivity>>,
                       sink |-> <<[op |-> "moveTo", x |-> FTrunc(r.value[1]),
                                   y |-> FTrunc(r.value[2])]>>]
    /\ app' = [app EXCEPT !.worker.pc = "loop"]
    /\ UNCHANGED <<detector, now, op, hand, event, pre, clockReads, hist,
                   filters, trail>>

\* _on_sensitivity_changed or _on_smoothing_changed in the GUI thread, up to
\* the return of set_sensitivity in update_mouse_settings
SliderChanged ==
    /\ app.gui.pc = "idle"
    /\ \E slider \in {"sensitivity", "smoothing"}, value \in SliderValues :
           LET sensitivity == IF slider = "sensitivity"
                              THEN FDiv(FromInt(value), FromInt(3))
                              ELSE app.config.mouse.sensitivity
               smoothing == IF slider = "smoothing"
                            THEN FDiv(FromInt(value), FromInt(10))
                            ELSE app.config.mouse.smoothing
           IN  /\ mouse' = set_sensitivity(mouse, sensitivity)
               /\ app' = [app EXCEPT !.config.mouse.sensitivity = sensitivity,
                                     !.config.mouse.smoothing = smoothing,
                                     !.gui.pc = "set_smoothing",
                                     !.gui.smoothing = smoothing]
    /\ UNCHANGED <<detector, now, op, hand, event, pre, clockReads, hist,
                   filters, call, trail>>

\* the rest of update_mouse_settings: set_smoothing
SettingsUpdated ==
    /\ app.gui.pc = "set_smoothing"
    /\ mouse' = set_smoothing(mouse, app.gui.smoothing)
    /\ app' = [app EXCEPT !.gui.pc = "idle", !.gui.smoothing = None]
    /\ UNCHANGED <<detector, now, op, hand, event, pre, clockReads, hist,
                   filters, call, trail>>

ThreadsNext ==
    \/ WorkerDetect \/ WorkerExecute \/ WorkerMapY \/ WorkerFilter
    \/ SliderChanged \/ SettingsUpdated

Threads == ThreadsInit /\ [][ThreadsNext]_vars

----------------------------------------------------------------------------
(* main.py: the tracking worker and the check boxes of the gestures.  The  *)
(* GUI thread writes the flag of a check box into the configuration the    *)
(* worker reads in _execute_gesture.                                       *)

GestureFlags ==
    {"cursor_control_enabled", "left_click_enabled", "right_click_enabled",
     "scroll_enabled"}

\* a check box toggled: config.set('gestures', flag, checked)
GestureToggled ==
    /\ \E flag \in GestureFlags, checked \in BOOLEAN :
           app' = [app EXCEPT !.config.gestures[flag] = checked]
    /\ UNCHANGED <<detector, now, op, hand, event, pre, clockReads, hist,
                   filters, mouse, call, trail>>

GesturesNext ==
    \/ WorkerDetect \/ WorkerExecute \/ WorkerMapY \/ WorkerFilter
    \/ GestureToggled

Gestures == ThreadsInit /\ [][GesturesNext]_vars

----------------------------------------------------------------------------
(* main.py: tracking started, paused, resumed and stopped.  The GUI thread *)
(* runs the handlers of the start/stop button, of the window, and of the   *)
(* tray menu; the worker thread runs TrackingWorker.run.  _stop_tracking   *)
(* blocks the GUI thread in tracking_thread.wait() until run has returned. *)
(* The worker: pc "unstarted" (initialize failed, the thread never         *)
(* started), "start" (thread started, run not entered), "loop" (the top of *)
(* the while loop), "read", "cap_read", "detect_hand", "detect_gesture",   *)
(* "execute", "map_y", "filter", "returned".                               *)

\* calls of stop() on one worker
MaxStops == 2

\* tracking_worker is None
NoWorker ==
    [pc |-> "none", ticks |-> 0, screen_x |-> 0, screen_y |-> 0,
     sensitivity_x |-> None, is_running |-> FALSE, is_paused |-> FALSE,
     camera |-> FALSE, hand_detector |-> FALSE, stops |-> 0, paused_at |-> None]

\* the application after GestureMouseApp.__init__; gui.called is the method
\* of the worker the GUI thread called last, gui.at where the worker was then
Stopped ==
    [is_tracking |-> FALSE, config |-> Tracking.config, worker |-> NoWorker,
     gui |-> [pc |-> "idle", smoothing |-> None, called |-> None, at |-> None],
     tray |-> [is_tracking |-> FALSE]]

\* what TrackingWorker.initialize can come to
Initialized == {"ok", "no camera", "no hand detector"}

\* the index finger alone, and the thumb on the index tip
LifecycleHands ==
    { Hand(ThumbAt(k, 0, 6), 0, 6, 6, 6, 12) : k \in {"away", "index"} }

LifecycleInit ==
    /\ DetectorInit
    /\ filters = FilterBank(DefaultFilters)
    /\ mouse = MouseController(Stopped.config.mouse.sensitivity,
                               Stopped.config.mouse.smoothing, FromInt(5), <<8, 5>>)
    /\ call = NoCall
    /\ trail = NoTrail
    /\ app = Stopped

\* TrackingWorker.__init__ and initialize, and the thread started when
\* initialize returned True
TrackingWorker(initialized) ==
    [NoWorker EXCEPT
        !.pc = IF initialized = "ok" THEN "start" ELSE "unstarted",
        !.camera = initialized # "no camera",
        !.hand_detector = initialized = "ok"]

\* _start_tracking
StartTracking ==
    /\ \E initialized \in Initialized :
           app' = [app EXCEPT
                      !.worker = TrackingWorker(initialized),
                      !.gui.called = "initialize",
                      !.gui.at = "none",
                      !.is_tracking = IF initialized = "ok" THEN TRUE ELSE @,
                      !.tray.is_tracking = IF initialized = "ok" THEN TRUE ELSE @]
    /\ \E pt \in PinchThresholds, st \in ScrollThresholds, cd \in Debounces :
           detector' = GestureDetector(pt, st, cd)
    /\ pre' = detector'
    /\ op' = "init"
    /\ hand' = NoHand
    /\ event' = NoEvent
    /\ clockReads' = <<>>
    /\ hist' = NoHist
    /\ mouse' = MouseController(app.config.mouse.sensitivity,
                                app.config.mouse.smoothing, FromInt(5), <<8, 5>>)
    /\ call' = [op |-> "_start_tracking"]
    /\ UNCHANGED <<now, filters, trail>>

\* TrackingWorker.stop that leaves is_running as it is
stop_keeps_running(self) ==
    [self EXCEPT !.stops = @ + 1]

\* TrackingWorker.stop: is_running cleared, the capture released, the hand
\* detector closed
stop(self) ==
    [self EXCEPT !.is_running = FALSE, !.stops = @ + 1]

\* _stop_tracking up to tracking_thread.wait()
StopTracking(request) ==
    /\ app.worker.stops < MaxStops
    /\ app' = [app EXCEPT
                  !.worker = IF @.pc = "none" THEN @ ELSE stop(@),
                  !.gui.pc = request,
                  !.gui.called = IF app.worker.pc = "none" THEN @ ELSE "stop",
                  !.gui.at = IF app.worker.pc = "none" THEN @ ELSE app.worker.pc]
    /\ UNCHANGED <<detector, now, op, hand, event, pre, clockReads, hist,
                   filters, mouse, call, trail>>

\* the start/stop button clicked
StartStopClicked ==
    /\ app.gui.pc = "idle"
    /\ IF app.is_tracking THEN StopTracking("stop") ELSE StartTracking

\* the window closed, or Exit chosen in the tray menu
WindowClosedOrExit ==
    /\ app.gui.pc = "idle"
    /\ \E request \in {"window closing", "exit"} : StopTracking(request)

\* tracking_thread.wait() returns and _stop_tracking goes on to its end; the
\* application quits after a window closing or an exit
TrackingStopped ==
    /\ app.gui.pc \in {"stop", "window closing", "exit"}
    /\ app.worker.pc \in {"none", "unstarted", "returned"}
    /\ app' = [app EXCEPT
                  !.is_tracking = FALSE,
                  !.tray.is_tracking = FALSE,
                  !.gui.pc = IF @ = "stop" THEN "idle" ELSE "quit"]
    /\ UNCHANGED <<detector, now, op, hand, event, pre, clockReads, hist,
                   filters, mouse, call, trail>>

\* Pause/Resume chosen in the tray menu: _on_pause_resume, then
\* _on_pause_tracking or _on_resume_tracking
PauseResumeChosen ==
    /\ app.gui.pc = "idle"
    /\ LET pauses == app.tray.is_tracking
       IN  /\ app' = IF app.worker.pc = "none" THEN app
                     ELSE [app EXCEPT
                              !.worker.is_paused = pauses,
                              !.worker.paused_at =
                                  IF pauses THEN app.worker.ticks ELSE None,
                              !.tray.is_tracking = ~pauses,
                              !.gui.called = IF pauses THEN "pause" ELSE "resume",
                              !.gui.at = app.worker.pc]
    /\ UNCHANGED <<detector, now, op, hand, event, pre, clockReads, hist,
                   filters, mouse, call, trail>>

\* run up to the while loop
RunEntered ==
    /\ app.worker.pc = "start"
    /\ app' = [app EXCEPT !.worker.is_running = TRUE, !.worker.pc = "loop"]
    /\ UNCHANGED <<detector, now, op, hand, event, pre, clockReads, hist,
                   filters, mouse, call, trail>>

\* a top of the loop that does not look at is_paused
top_of_loop_ignores_pause(self) ==
    IF ~self.is_running THEN "returned" ELSE "read"

\* the top of the loop of run: where the worker goes from "while
\* self.is_running" and "if self.is_paused"
top_of_loop(self) ==
    IF ~self.is_running THEN "returned"
    ELSE IF self.is_paused THEN "loop"
    ELSE "read"

WorkerLoop ==
    /\ app.worker.pc = "loop"
    /\ app' = [app EXCEPT !.worker.pc = top_of_loop(app.worker)]
    /\ UNCHANGED <<detector, now, op, hand, event, pre, clockReads, hist,
                   filters, mouse, call, trail>>

\* camera.read_frame() up to "if not self.is_active or self.cap is None:
\* return False, None"; camera.stop() has cleared is_active when stop() of
\* the worker has returned
WorkerRead ==
    /\ app.worker.pc = "read"
    /\ app' = [app EXCEPT
                  !.worker.pc = IF app.worker.stops = 0 THEN "cap_read" ELSE "loop"]
    /\ call' = [op |-> "read_frame", is_active |-> app.worker.stops = 0]
    /\ UNCHANGED <<detector, now, op, hand, event, pre, clockReads, hist,
                   filters, mouse, trail>>

\* "ret, frame = self.cap.read()" of read_frame: a frame or none from an
\* open capture, none from a released one
WorkerCapRead ==
    /\ app.worker.pc = "cap_read"
    /\ \E success \in BOOLEAN :
           /\ success => app.worker.stops = 0 /\ app.worker.ticks < MaxTicks
           /\ app' = [app EXCEPT
                          !.worker.pc = IF success THEN "detect_hand" ELSE "loop"]
           /\ call' = [op |-> "cap.read", released |-> app.worker.stops > 0,
                       success |-> success]
    /\ UNCHANGED <<detector, now, op, hand, event, pre, clockReads, hist,
                   filters, mouse, trail>>

\* hand_detector.detect(frame): a closed detector raises, run logs the
\* error and goes on with the loop
WorkerDetectHand ==
    /\ app.worker.pc = "detect_hand"
    /\ app' = [app EXCEPT
                  !.worker.pc = IF app.worker.stops = 0 THEN "detect_gesture"
                                ELSE "loop"]
    /\ call' = [op |-> "detect", closed |-> app.worker.stops > 0]
    /\ UNCHANGED <<detector, now, op, hand, event, pre, clockReads, hist,
                   filters, mouse, trail>>

\* gesture_detector.detect_gesture(hand_landmarks)
WorkerTick ==
    /\ app.worker.pc = "detect_gesture"
    /\ \E h \in LifecycleHands \cup {NoHand} : Detected(h, <<now, now, now>>)
    /\ app' = [app EXCEPT !.worker.pc = "execute", !.worker.ticks = @ + 1]
    /\ UNCHANGED <<filters, mouse, call, trail>>

\* a step of the worker thread
WorkerStep ==
    \/ RunEntered \/ WorkerLoop \/ WorkerRead \/ WorkerCapRead
    \/ WorkerDetectHand \/ WorkerTick \/ WorkerExecute \/ WorkerMapY \/ WorkerFilter

LifecycleNext ==
    \/ StartStopClicked \/ WindowClosedOrExit \/ TrackingStopped
    \/ PauseResumeChosen \/ WorkerStep

Lifecycle == LifecycleInit /\ [][LifecycleNext]_vars

\* the worker thread is scheduled again and again
LifecycleFair == Lifecycle /\ WF_vars(WorkerStep)

----------------------------------------------------------------------------
(* utils/config.py: ConfigManager.  A Python dict is an object: a variable *)
(* or an entry of another dict holds a reference to it.  objects maps each *)
(* section dict to its entries; DEFAULT_CONFIG and the config of a manager *)
(* map a section name to the section dict they refer to.                   *)

\* ConfigManager objects constructed
MaxManagers == 2

\* the sections and keys of DEFAULT_CONFIG the application sets from its
\* check boxes and sliders, with the values of the class body
DefaultSections ==
    [gestures |-> [left_click_enabled |-> TRUE, scroll_enabled |-> TRUE],
     mouse |-> [sensitivity |-> Float(3, 2), smoothing |-> Float(3, 10)]]

\* the class attribute DEFAULT_CONFIG: the dict of the section dicts made
\* when the class body ran, each section dict named by its section
DEFAULT_CONFIG == [section \in DOMAIN DefaultSections |-> section]

\* values given to set
ConfigValues(section, key) ==
    IF section = "mouse" THEN {DefaultSections[section][key], One} ELSE BOOLEAN

\* dict.copy(): a new dict with the same entries, so the same section dicts
copy(d) == [section \in DOMAIN d |-> d[section]]

\* ConfigManager.__init__ with no file at config_path: load changes nothing
ConfigManager == [config |-> copy(DEFAULT_CONFIG)]

\* ConfigManager.get for a section and a key that exist
get(self, objects, section, key) == objects[self.config[section]][key]

\* ConfigManager.set for a section of self.config: the objects after
\* "self.config[section][key] = value"
set(self, objects, section, key, value) ==
    [objects EXCEPT ![self.config[section]][key] = value]

\* ConfigManager.reset_to_defaults
reset_to_defaults(self) == [self EXCEPT !.config = copy(DEFAULT_CONFIG)]

ConfigInit ==
    /\ DetectorInit
    /\ filters = FilterBank(DefaultFilters)
    /\ mouse = MouseController(Float(3, 2), Float(3, 10), FromInt(5), <<1, 1>>)
    /\ trail = NoTrail
    /\ app = [objects |-> DefaultSections, managers |-> <<ConfigManager>>]
    /\ call = [op |-> "__init__", manager |-> 1]

ConfigConstruct ==
    /\ Len(app.managers) < MaxManagers
    /\ app' = [app EXCEPT !.managers = Append(@, ConfigManager)]
    /\ call' = [op |-> "__init__", manager |-> Len(app.managers) + 1]
    /\ UNCHANGED <<detector, now, op, hand, event, pre, clockReads, hist,
                   filters, mouse, trail>>

ConfigSet ==
    /\ \E m \in 1..Len(app.managers), section \in DOMAIN DefaultSections :
           \E key \in DOMAIN DefaultSections[section] :
               \E value \in ConfigValues(section, key) :
                   /\ app' = [app EXCEPT
                                  !.objects = set(app.managers[m], @, section,
                                                  key, value)]
                   /\ call' = [op |-> "set", manager |-> m, section |-> section,
                               key |-> key, value |-> value]
    /\ UNCHANGED <<detector, now, op, hand, event, pre, clockReads, hist,
                   filters, mouse, trail>>

ConfigReset ==
    /\ \E m \in 1..Len(app.managers) :
           /\ app' = [app EXCEPT !.managers[m] = reset_to_defaults(@)]
           /\ call' = [op |-> "reset_to_defaults", manager |-> m]
    /\ UNCHANGED <<detector, now, op, hand, event, pre, clockReads, hist,
                   filters, mouse, trail>>

ConfigNext == ConfigConstruct \/ ConfigSet \/ ConfigReset

Config == ConfigInit /\ [][ConfigNext]_vars

----------------------------------------------------------------------------
(* The claims.  A state shows the last operation: the detector it found    *)
(* (pre), its argument (hand), the clock values it read (clockReads), what *)
(* it returned (event) and the detector it left (detector).                *)

Tick == op = "detect_gesture"
HandTick == Tick /\ hand.present
NoHandTick == Tick /\ ~hand.present

Clicks == {LEFT_CLICK, RIGHT_CLICK}
Debounce == pre.state.debounce_time

IndexBelow == HandTick /\ Below(hand, INDEX_FINGER_TIP, pre.pinch_threshold)
MiddleBelow == HandTick /\ Below(hand, MIDDLE_FINGER_TIP, pre.pinch_threshold)

IndexTip == <<hand.points[INDEX_FINGER_TIP + 1][1], hand.points[INDEX_FINGER_TIP + 1][2]>>
MiddleTip == <<hand.points[MIDDLE_FINGER_TIP + 1][1], hand.points[MIDDLE_FINGER_TIP + 1][2]>>

\* the k-th clock value the tick read (the clock itself if it read fewer)
ReadAt(k) == IF k <= Len(clockReads) THEN clockReads[k] ELSE now

\* the left rule asks the debounce first, when the pinch is new
LeftAsked == IndexBelow /\ ~pre.state.is_pinched
LeftAllowed == LeftAsked /\ ReadAt(1) - pre.state.last_trigger_time >= Debounce

\* the right rule asks it next
RightAskedAt == IF LeftAsked THEN ReadAt(2) ELSE ReadAt(1)
RightAllowed ==
    /\ MiddleBelow /\ ~LeftAllowed
    /\ RightAskedAt - pre.state.last_trigger_time >= Debounce

\* C1: any two clicks emitted with no reset in between, of whatever kinds,
\* have trigger times at least click_debounce apart, and a tick that ends
\* less than click_debounce after the last recorded trigger emits no click.
C1_Debounce ==
    /\ \A i, j \in 1..Len(hist.clicks) :
           i < j => hist.clicks[j].at - hist.clicks[i].at >= detector.state.debounce_time
    /\ (Tick /\ now - pre.state.last_trigger_time < Debounce)
           => event.type \notin Clicks

\* a left click follows a right click at exactly the debounce interval
C1_Witness ==
    /\ Tick /\ Len(hist.clicks) >= 2
    /\ hist.clicks[1].kind = RIGHT_CLICK /\ hist.clicks[2].kind = LEFT_CLICK
    /\ hist.clicks[2].at - hist.clicks[1].at = Debounce

\* C2 as claimed: every maximal run of hand-present ticks with the
\* thumb-index distance below the threshold emits exactly one LeftClick.
C2_ExactlyOnePerRun ==
    hist.ended_left # -1 => hist.ended_left = 1

\* C2 amended: such a run emits at most one LeftClick, and exactly one when
\* on some tick of it the latch is clear and the debounce allows a trigger.
C2_AtMostOnePerRun ==
    /\ hist.run_left <= 1
    /\ hist.ended_left # -1 => hist.ended_left = (IF hist.ended_open THEN 1 ELSE 0)

\* a later tick of a sustained pinch: the click was emitted, no second one is
C2_Witness ==
    /\ IndexBelow /\ pre.state.is_pinched
    /\ hist.run_left = 1 /\ event.type # LEFT_CLICK

\* C3: a hand-present tick with the thumb-index distance not below the
\* threshold leaves the latch clear, and the next pinch the debounce allows
\* emits a LeftClick again.
C3_ReleaseRearms ==
    /\ (HandTick /\ ~IndexBelow) => ~detector.state.is_pinched
    /\ hist.released => ~detector.state.is_pinched
    /\ (IndexBelow /\ hist.was_released
            /\ ReadAt(1) - pre.state.last_trigger_time >= Debounce)
           => event.type = LEFT_CLICK

\* the second LeftClick, after a release
C3_Witness ==
    /\ IndexBelow /\ hist.was_released /\ event.type = LEFT_CLICK
    /\ Len(hist.clicks) >= 2 /\ hist.clicks[1].kind = LEFT_CLICK

\* C4: while the thumb-middle distance is below the threshold and no left
\* click fires, every tick on which the debounce allows emits RightClick:
\* there is no latch, and successive RightClicks are a debounce apart.
C4_RightClickRepeats ==
    /\ (MiddleBelow /\ event.type # LEFT_CLICK
            /\ RightAskedAt - pre.state.last_trigger_time >= Debounce)
           => event = [type |-> RIGHT_CLICK, data |-> [position |-> MiddleTip]]
    /\ (event.type = RIGHT_CLICK /\ Len(hist.clicks) >= 2)
           => hist.clicks[Len(hist.clicks)].at
                  - hist.clicks[Len(hist.clicks) - 1].at >= Debounce

\* the second RightClick of one sustained middle pinch
C4_Witness ==
    MiddleBelow /\ event.type = RIGHT_CLICK /\ hist.run_right >= 2

\* C5: a new index pinch the debounce allows emits LeftClick with the (x, y)
\* of the index fingertip, sets the latch and records the time.
C5_LeftClick ==
    LeftAllowed =>
        /\ event = [type |-> LEFT_CLICK, data |-> [position |-> IndexTip]]
        /\ detector.state.is_pinched
        /\ detector.state.last_trigger_time = now
        /\ now >= ReadAt(1)

C5_Witness ==
    LeftAllowed /\ event.type = LEFT_CLICK /\ detector.state.is_pinched

\* the scroll condition on the hand of the tick, and the midpoint of its
\* index and middle fingertips
ScrollMode == HandTick /\ ScrollCondition(hand)
IsMidpoint(pos) ==
    /\ 2 * pos[1] = IndexTip[1] + MiddleTip[1]
    /\ 2 * pos[2] = IndexTip[2] + MiddleTip[2]

\* the first rule that applies, in the order LeftClick, RightClick, Scroll,
\* CursorMove, None
FirstRule ==
    IF LeftAllowed THEN LEFT_CLICK
    ELSE IF RightAllowed THEN RIGHT_CLICK
    ELSE IF ScrollMode THEN SCROLL
    ELSE IF Extended(hand, INDEX_FINGER_TIP) THEN CURSOR_MOVE
    ELSE NONE

\* C6: a hand-present tick emits the one event of the first rule that
\* applies, in the fixed order; a tick that emits a click does not run the
\* scroll or the cursor rule (the stored positions stay as they were).
C6_PriorityOrder ==
    HandTick =>
        /\ event.type = FirstRule
        /\ event.type = LEFT_CLICK => event.data = [position |-> IndexTip]
        /\ event.type = RIGHT_CLICK => event.data = [position |-> MiddleTip]
        /\ event.type \in Clicks =>
               /\ detector.prev_scroll_pos = pre.prev_scroll_pos
               /\ detector.prev_index_pos = pre.prev_index_pos

\* all four rules apply at once (both pinches, scroll pose), LeftClick wins
\* and the stored positions are not touched
C6_Witness ==
    /\ LeftAllowed /\ MiddleBelow /\ ScrollMode
    /\ event.type = LEFT_CLICK
    /\ pre.prev_scroll_pos # None /\ pre.prev_index_pos # None

\* C7: a tick with no hand emits None with an empty payload and leaves both
\* stored positions cleared.
C7_NoHand ==
    NoHandTick =>
        /\ event = [type |-> NONE, data |-> <<>>]
        /\ DOMAIN event.data = {}
        /\ detector.prev_index_pos = None
        /\ detector.prev_scroll_pos = None

\* the hand disappears while both positions are stored
C7_Witness ==
    NoHandTick /\ pre.prev_index_pos # None /\ pre.prev_scroll_pos # None

\* C8: a tick that reaches the scroll rule with the scroll condition true
\* emits Scroll at the midpoint of the two tips, with the move since the
\* stored midpoint when there is one and the move exceeds scroll_threshold,
\* with 0 otherwise, and stores the midpoint.
C8_ScrollDelta ==
    (ScrollMode /\ event.type \notin Clicks) =>
        /\ event.type = SCROLL
        /\ DOMAIN event.data = {"delta_y", "position"}
        /\ IsMidpoint(event.data.position)
        /\ detector.prev_scroll_pos = event.data.position
        /\ event.data.delta_y =
               IF /\ pre.prev_scroll_pos # None
                  /\ Abs(event.data.position[2] - pre.prev_scroll_pos[2])
                         > pre.scroll_threshold
               THEN event.data.position[2] - pre.prev_scroll_pos[2]
               ELSE 0

\* a scroll by more than the threshold
C8_Witness ==
    /\ ScrollMode /\ event.type = SCROLL /\ pre.prev_scroll_pos # None
    /\ event.data.delta_y # 0

\* a scroll by exactly the threshold, reported as no motion
C8_AtThreshold ==
    /\ ScrollMode /\ event.type = SCROLL /\ pre.prev_scroll_pos # None
    /\ Abs(event.data.position[2] - pre.prev_scroll_pos[2]) = pre.scroll_threshold
    /\ event.data.delta_y = 0

\* C9: after every tick on which the scroll condition is false the stored
\* scroll midpoint is empty, so the first Scroll after scroll mode is entered
\* again has delta_y = 0.
C9_LeavingScrollClears ==
    /\ (Tick /\ ~ScrollMode) => detector.prev_scroll_pos = None
    /\ (Tick /\ event.type = SCROLL /\ ~hist.scroll_before) => event.data.delta_y = 0

\* C10 as claimed: the latch is never set in a state with a stored scroll
\* midpoint, and no tick emits Scroll while the pinch is latched.
C10_LatchExcludesScroll ==
    /\ ~(detector.state.is_pinched /\ detector.prev_scroll_pos # None)
    /\ (Tick /\ event.type = SCROLL) => ~detector.state.is_pinched

\* C10 amended: the latch and a stored midpoint can hold together; no single
\* tick sets both: the tick that sets the latch emits LeftClick and leaves the
\* stored midpoint as it was, and a tick that emits Scroll or stores a
\* midpoint never sets the latch.
C10_OneDrivesATick ==
    /\ (Tick /\ detector.state.is_pinched /\ ~pre.state.is_pinched) =>
           /\ event.type = LEFT_CLICK
           /\ detector.prev_scroll_pos = pre.prev_scroll_pos
    /\ (Tick /\ (event.type = SCROLL \/ detector.prev_scroll_pos # pre.prev_scroll_pos)) =>
           (detector.state.is_pinched => pre.state.is_pinched)

\* the latch is set on a tick in scroll pose with a midpoint stored
C10_Witness ==
    /\ ScrollMode /\ event.type = LEFT_CLICK
    /\ ~pre.state.is_pinched /\ detector.state.is_pinched
    /\ pre.prev_scroll_pos # None /\ detector.prev_scroll_pos = pre.prev_scroll_pos

\* C24: from one operation to the next, a CursorMove carries the distance
\* (here its square) between its index-tip position and that of the tick
\* just before it when that tick emitted CursorMove too, and 0 when what
\* came just before is anything else: a tick without a hand, a tick that
\* emitted None, a click or Scroll, the construction or a reset.
C24_Velocity ==
    [][ (op' = "detect_gesture" /\ event'.type = CURSOR_MOVE) =>
            event'.data.velocity_sq =
                IF op = "detect_gesture" /\ event.type = CURSOR_MOVE
                THEN Sq(event'.data.position[1] - event.data.position[1])
                   + Sq(event'.data.position[2] - event.data.position[2])
                ELSE 0 ]_vars

\* the height of the midpoint of the index and middle fingertips of a hand,
\* doubled
MidpointHeight2(h) ==
    h.points[INDEX_FINGER_TIP + 1][2] + h.points[MIDDLE_FINGER_TIP + 1][2]

\* C31: from one tick to the next, both with the scroll condition true and
\* the midpoint of the second at most scroll_threshold from the midpoint of
\* the first, a Scroll the second tick emits has delta_y = 0: motion below
\* the threshold does not add up over the ticks of a run.
C31_NoAccumulation ==
    [][ ( /\ op = "detect_gesture" /\ hand.present /\ ScrollCondition(hand)
          /\ op' = "detect_gesture" /\ hand'.present /\ ScrollCondition(hand')
          /\ Abs(MidpointHeight2(hand') - MidpointHeight2(hand))
                 <= 2 * detector.scroll_threshold
          /\ event'.type = SCROLL )
        => event'.data.delta_y = 0 ]_vars

\* the wrist lies on the middle-finger MCP: the hand has size zero
HandSizeZero == HandTick /\ hand.points[WRIST + 1] = hand.points[MIDDLE_FINGER_MCP + 1]

\* the thumb tip lies on the index tip
ThumbOnIndex == HandTick /\ hand.points[THUMB_TIP + 1] = hand.points[INDEX_FINGER_TIP + 1]

\* the pinch threshold is at most 1.0
ThresholdAtMostOne == pre.pinch_threshold[1] <= pre.pinch_threshold[2]

\* C25 as claimed: a tick on a hand of size zero emits neither LeftClick
\* nor RightClick, whatever the pinch threshold.
C25_DegenerateNeverClicks ==
    HandSizeZero => event.type \notin Clicks

\* C25 amended: on a hand of size zero both normalized distances are 1.0,
\* whatever the thumb does; with a pinch threshold of at most 1.0 the tick
\* emits no click and leaves the latch clear; with a pinch threshold above
\* 1.0 both pinches are seen, and a click is emitted when the latch and the
\* debounce allow one.
C25_DegenerateHand ==
    HandSizeZero =>
        /\ ThresholdAtMostOne =>
               /\ event.type \notin Clicks
               /\ ~detector.state.is_pinched
        /\ ~ThresholdAtMostOne =>
               /\ (~pre.state.is_pinched
                      /\ ReadAt(1) - pre.state.last_trigger_time >= Debounce)
                     => event.type = LEFT_CLICK
               /\ (pre.state.is_pinched
                      /\ ReadAt(1) - pre.state.last_trigger_time >= Debounce)
                     => event.type = RIGHT_CLICK
               /\ event.type \notin Clicks =>
                      now - pre.state.last_trigger_time < Debounce

\* a hand of size zero with the thumb on the index tip, an open latch, the
\* debounce over and a threshold below 1.0: no click
C25_Witness ==
    /\ HandSizeZero /\ ThumbOnIndex
    /\ pre.pinch_threshold[1] < pre.pinch_threshold[2]
    /\ ~pre.state.is_pinched
    /\ now - pre.state.last_trigger_time >= Debounce
    /\ event.type \notin Clicks

\* a hand of size zero with the thumb away from the tips and a threshold
\* above 1.0: LeftClick
C25_AboveOne ==
    /\ HandSizeZero /\ ~ThumbOnIndex
    /\ ~ThresholdAtMostOne
    /\ event.type = LEFT_CLICK

\* C26: get_landmark(index) returns the point stored at index when
\* 0 <= index < number of points, and (0, 0, 0) for every other index,
\* below zero or too large; it raises nothing and the points stay as
\* they are.
C26_GetLandmark ==
    call.op = "get_landmark" =>
        /\ call.index \in 0 .. (Len(hand.points) - 1) =>
               call.value = hand.points[call.index + 1]
        /\ call.index \notin 0 .. (Len(hand.points) - 1) =>
               call.value = <<0, 0, 0>>
        /\ Len(call.value) = 3

\* index -1 on a set of 21 points whose last point is not (0, 0, 0)
C26_Witness ==
    /\ call.op = "get_landmark" /\ call.index = -1
    /\ Len(hand.points) = 21 /\ hand.points[21] # <<0, 0, 0>>
    /\ call.value = <<0, 0, 0>>

\* C29: with the pinch latched and the thumb-index distance still below
\* the threshold, a thumb-middle distance below the threshold and a debounce
\* that allows a trigger give RightClick at the middle fingertip; the latch
\* stays set and the time of the trigger is recorded.
C29_RightClickWhileLatched ==
    (IndexBelow /\ pre.state.is_pinched /\ MiddleBelow
        /\ ReadAt(1) - pre.state.last_trigger_time >= Debounce) =>
        /\ event = [type |-> RIGHT_CLICK, data |-> [position |-> MiddleTip]]
        /\ detector.state.is_pinched
        /\ detector.state.last_trigger_time = now
        /\ Len(clockReads) = 2

\* the thumb between the two tips, a debounce after the LeftClick that
\* latched the pinch
C29_Witness ==
    /\ IndexBelow /\ pre.state.is_pinched /\ MiddleBelow
    /\ event.type = RIGHT_CLICK /\ detector.state.is_pinched
    /\ Len(hist.clicks) = 2 /\ hist.clicks[1].kind = LEFT_CLICK
    /\ hist.run_left = 1

\* C30: a tick without a hand leaves the latch and the last trigger time as
\* they were; a LeftClick that follows another LeftClick (no reset between
\* them) comes only after a hand-present tick with the thumb-index distance
\* at or above the threshold, whether or not the hand disappeared meanwhile.
C30_NoHandKeepsLatch ==
    /\ NoHandTick =>
           /\ detector.state.is_pinched = pre.state.is_pinched
           /\ detector.state.last_trigger_time = pre.state.last_trigger_time
           /\ detector.state.debounce_time = pre.state.debounce_time
    /\ (Tick /\ event.type = LEFT_CLICK
           /\ \E i \in 1..(Len(hist.clicks) - 1) : hist.clicks[i].kind = LEFT_CLICK)
          => hist.was_released
    /\ (IndexBelow /\ pre.state.is_pinched) => event.type # LEFT_CLICK

\* the hand is back, still pinched, after ticks without a hand that broke
\* the run of the pinch; the debounce is over and no LeftClick is emitted
C30_Witness ==
    /\ IndexBelow /\ pre.state.is_pinched
    /\ ~hist.was_released /\ hist.run_left = 0
    /\ Len(hist.clicks) >= 1 /\ hist.clicks[1].kind = LEFT_CLICK
    /\ Len(clockReads) >= 1
    /\ ReadAt(1) - pre.state.last_trigger_time >= Debounce
    /\ event.type # LEFT_CLICK

----------------------------------------------------------------------------
(* The detector over resets *)

\* C11: over the whole life of a detector, resets included, any two clicks
\* it emits have trigger times at least click_debounce apart.
C11_DebounceOverLife ==
    \A i, j \in 1..Len(hist.clicks) :
        i < j => hist.clicks[j].at - hist.clicks[i].at >= detector.state.debounce_time

\* C12: reset leaves the latch clear and both stored positions empty, and
\* leaves click_debounce, pinch_threshold and scroll_threshold as they were.
C12_ResetClears ==
    op = "reset" =>
        /\ ~detector.state.is_pinched
        /\ detector.prev_index_pos = None
        /\ detector.prev_scroll_pos = None
        /\ detector.state.debounce_time = pre.state.debounce_time
        /\ detector.pinch_threshold = pre.pinch_threshold
        /\ detector.scroll_threshold = pre.scroll_threshold

\* a reset of a detector that is latched and holds both positions
C12_Witness ==
    /\ op = "reset"
    /\ pre.state.is_pinched
    /\ pre.prev_index_pos # None /\ pre.prev_scroll_pos # None

----------------------------------------------------------------------------
(* The filters.  A state shows the last call: the filters it found         *)
(* (call.before), the sample it gave (call.sample), what each filter       *)
(* returned (call.value) and the filters it left (filters).                *)

Update == call.op = "update"
Value == call.sample.v

\* the values given since construction or the last reset are all the same
ConstantInput == \A i \in 1..Len(trail.inputs) : trail.inputs[i] = Value

\* C13: on each stateful component, a second reset changes nothing: from any
\* state, reset twice leaves what reset once leaves.
C13_ResetIdempotent ==
    /\ reset(reset(detector)) = reset(detector)
    /\ ema_reset(ema_reset(filters.ema)) = ema_reset(filters.ema)
    /\ ma_reset(ma_reset(filters.moving_average)) = ma_reset(filters.moving_average)
    /\ one_euro_reset(one_euro_reset(filters.one_euro)) = one_euro_reset(filters.one_euro)
    /\ kalman_reset(kalman_reset(filters.kalman)) = kalman_reset(filters.kalman)
    /\ smoothing_reset(smoothing_reset(filters.smoothing)) = smoothing_reset(filters.smoothing)
    /\ call.op = "reset" =>
           /\ reset(detector) = detector
           /\ reset_all(filters) = filters

\* a reset of components that all hold history: a latched detector with a
\* stored position, seeded filters, a window of two samples
C13_Witness ==
    /\ call.op = "reset"
    /\ pre.state.is_pinched /\ pre.prev_index_pos # None
    /\ call.before.ema.value # None
    /\ Len(call.before.moving_average.values.items) >= 2
    /\ call.before.one_euro.x_prev # None /\ call.before.one_euro.dx_prev # Zero
    /\ call.before.kalman.estimate # None /\ call.before.kalman.error_estimate # One
    /\ call.before.smoothing.smoothed_x # None

\* C14: the first update(v) after a reset that followed updates returns v
\* from each of the four filters; the window of the moving average then
\* holds v alone.
C14_FirstAfterReset ==
    (Update /\ Len(trail.inputs) = 1 /\ trail.before_reset # None) =>
        /\ call.value.ema = Value
        /\ call.value.moving_average = Value
        /\ filters.moving_average.values.items = <<Value>>
        /\ call.value.one_euro = Value
        /\ call.value.kalman = Value

\* the value before the reset was another one
C14_Witness ==
    /\ Update /\ Len(trail.inputs) = 1
    /\ trail.before_reset # None /\ trail.before_reset # Value
    /\ call.value.ema = Value /\ call.value.one_euro = Value

\* C15 as claimed: from an unseeded filter, the same value v given again and
\* again comes back as exactly v from EMA, Kalman and Moving Average.
C15_ConstantInputExact ==
    (Update /\ ConstantInput) =>
        /\ call.value.ema = Value
        /\ call.value.kalman = Value
        /\ call.value.moving_average = Value

\* C15 amended: it comes back as exactly v from Kalman; from EMA when alpha
\* is 0 or 1; from Moving Average while the window holds at most two samples.
C15_ConstantInput ==
    (Update /\ ConstantInput) =>
        /\ call.value.kalman = Value
        /\ filters.ema.alpha \in {Zero, One} => call.value.ema = Value
        /\ Len(filters.moving_average.values.items) <= 2 =>
               call.value.moving_average = Value

\* the third update with the same value
C15_Witness ==
    /\ Update /\ ConstantInput /\ Len(trail.inputs) >= 3
    /\ call.value.kalman = Value
    /\ call.before.kalman.estimate = Value

\* the same value given three times comes back changed from the EMA
C15_EmaDrifts ==
    /\ Update /\ ConstantInput
    /\ call.value.ema # Value

\* the same value given three times comes back changed from the moving average
C15_MeanDrifts ==
    /\ Update /\ ConstantInput
    /\ call.value.moving_average # Value

\* the sample that carries the value v
SampleOf(v) == CHOOSE s \in Samples : s.v = v

\* the four filters as their constructors leave them
Fresh ==
    [ema            |-> ExponentialMovingAverage(trail.config.alpha),
     moving_average |-> MovingAverageFilter(trail.config.window_size),
     one_euro       |-> OneEuroFilter(trail.config.min_cutoff, trail.config.beta,
                                      trail.config.d_cutoff),
     kalman         |-> KalmanFilter(trail.config.process_variance,
                                     trail.config.measurement_variance)]

\* the four filters of a bank
Four(bank) == [k \in DOMAIN Fresh |-> bank[k]]

\* what the last of the updates with the values vs returns from new filters,
\* and the filters it leaves
RECURSIVE Replayed(_)
Replayed(vs) ==
    IF vs = <<>> THEN [self |-> Fresh, value |-> None]
    ELSE LET bank == Replayed(SubSeq(vs, 1, Len(vs) - 1)).self
             s == SampleOf(vs[Len(vs)])
             ema == ema_update(bank.ema, s.v)
             moving_average == ma_update(bank.moving_average, s.v)
             one_euro == one_euro_update(bank.one_euro, s.v, s.t)
             kalman == kalman_update(bank.kalman, s.v)
         IN  [self  |-> [ema |-> ema.self, moving_average |-> moving_average.self,
                         one_euro |-> one_euro.self, kalman |-> kalman.self],
              value |-> [ema |-> ema.value, moving_average |-> moving_average.value,
                         one_euro |-> one_euro.value, kalman |-> kalman.value]]

\* C32: reset() leaves each of the four filters as its constructor does with
\* the same parameters, and every update after a reset returns, and leaves,
\* what new filters return, and are left as, given the same values.
C32_ResetIsNew ==
    /\ call.op = "reset" => Four(filters) = Fresh
    /\ (Update /\ trail.before_reset # None) =>
           /\ Four(call.value) = Replayed(trail.inputs).value
           /\ Four(filters) = Replayed(trail.inputs).self

\* the second update after a reset that followed updates, where the filters
\* return something else than the value they are given
C32_Witness ==
    /\ Update /\ trail.before_reset # None /\ Len(trail.inputs) >= 2
    /\ call.value.ema # Value /\ call.value.moving_average # Value
    /\ call.value.one_euro # Value /\ call.value.kalman # Value
    /\ filters.kalman.error_estimate # One

\* alpha as the constructor was given it, clamped into [0, 1]
ClampedAlpha ==
    IF FLess(trail.config.alpha, Zero) THEN Zero
    ELSE IF FLess(One, trail.config.alpha) THEN One
    ELSE trail.config.alpha

\* C19: the EMA holds alpha clamped into [0, 1]; its first update after
\* construction or reset returns the input and stores it; every later update
\* returns alpha * new + (1 - alpha) * previous output and stores it.
C19_Ema ==
    /\ filters.ema.alpha = ClampedAlpha
    /\ FLessEq(Zero, filters.ema.alpha) /\ FLessEq(filters.ema.alpha, One)
    /\ Update => filters.ema.value = call.value.ema
    /\ (Update /\ Len(trail.inputs) = 1) => call.value.ema = Value
    /\ (Update /\ Len(trail.inputs) > 1) =>
           call.value.ema =
               FAdd(FMul(ClampedAlpha, Value),
                    FMul(FSub(One, ClampedAlpha), call.previous.ema))

\* a later update with alpha = 0.3 and a new value
C19_Witness ==
    /\ Update /\ Len(trail.inputs) > 1
    /\ FLess(Zero, filters.ema.alpha) /\ FLess(filters.ema.alpha, One)
    /\ call.previous.ema # Value
    /\ call.value.ema # Value /\ call.value.ema # call.previous.ema

\* the last n items of a sequence
LastOf(seq, n) == SubSeq(seq, Len(seq) - n + 1, Len(seq))

\* the sum of the items, added one at a time in their order, over their number
RECURSIVE SumOf(_)
SumOf(seq) ==
    IF seq = <<>> THEN Zero
    ELSE FAdd(SumOf(SubSeq(seq, 1, Len(seq) - 1)), seq[Len(seq)])

MeanOf(seq) == FDiv(SumOf(seq), FromInt(Len(seq)))

\* C20: with a window of N >= 1, the k-th update since construction or reset
\* returns the mean of the last min(k, N) inputs, which are what the window
\* holds: never more than N, the oldest evicted first.
C20_MovingAverage ==
    LET N == trail.config.window_size
        k == Len(trail.inputs)
        held == LastOf(trail.inputs, Min(k, N))
    IN  /\ Len(filters.moving_average.values.items) <= N
        /\ filters.moving_average.values.items = held
        /\ Update => call.value.moving_average = MeanOf(held)

\* an update that evicts: the window is full of other values
C20_Witness ==
    /\ Update
    /\ Len(trail.inputs) > trail.config.window_size
    /\ trail.config.window_size >= 2
    /\ trail.inputs[1] # trail.inputs[2] /\ trail.inputs[2] # Value
    /\ trail.inputs[1] # Value

\* C21: for every window_size asked for, 0 and below included, the
\* constructor leaves a filter whose window has a capacity of at least 1
\* (the capacity asked for when it is 1 or more, 1 otherwise), and update(v)
\* on it returns a number: v itself when the window then holds v alone.
C21_CapacityAtLeastOne ==
    /\ Constructed(filters.moving_average)
    /\ filters.moving_average.values.maxlen =
           (IF trail.config.window_size < 1 THEN 1 ELSE trail.config.window_size)
    /\ Update =>
           /\ call.value # ZeroDivisionError
           /\ Len(trail.inputs) = 1 => call.value = Value

\* the One-Euro filter as the last update found it, and its arguments
Euro == call.before.one_euro
EuroLater == Update /\ Euro.x_prev # None
RawDelta == FSub(call.sample.t, Euro.t_prev)
Epsilon == Float(1, 1000)

\* r / (r + 1) with r = 2 * pi * cutoff * dt
Factor(dt, cutoff) ==
    LET r == FMul(FMul(FMul(FromInt(2), Float(355, 113)), cutoff), dt)
    IN  FDiv(r, FAdd(r, FromInt(1)))

\* a * x + (1 - a) * prev
Blend(a, x, prev) == FAdd(FMul(a, x), FMul(FSub(FromInt(1), a), prev))

\* the derivative and the output of an update of the One-Euro filter that
\* takes dt for the time delta
EuroDerivative(dt) ==
    Blend(Factor(dt, Euro.d_cutoff), FDiv(FSub(Value, Euro.x_prev), dt), Euro.dx_prev)
EuroOutput(dt) ==
    Blend(Factor(dt, FAdd(Euro.min_cutoff,
                          FMul(Euro.beta, FAbs(EuroDerivative(dt))))),
          Value, Euro.x_prev)

\* C22 as claimed: for any two consecutive timestamps the dt an update
\* takes is at least 0.001: it is t - t_prev, raised to 0.001 when less.
C22_DtAtLeastEpsilon ==
    EuroLater =>
        LET dt == IF FLess(RawDelta, Epsilon) THEN Epsilon ELSE RawDelta
        IN  /\ call.value.one_euro = EuroOutput(dt)
            /\ filters.one_euro.dx_prev = EuroDerivative(dt)

\* C22 amended: the dt an update takes is 0.001 when t - t_prev is zero or
\* negative and t - t_prev itself when that is positive, however small; it
\* is positive always, so the update divides by no zero and returns a value.
C22_DtPositive ==
    EuroLater =>
        LET dt == IF FLessEq(RawDelta, Zero) THEN Epsilon ELSE RawDelta
        IN  /\ FLess(Zero, dt)
            /\ call.value.one_euro = EuroOutput(dt)
            /\ filters.one_euro = [Euro EXCEPT !.x_prev = EuroOutput(dt),
                                               !.dx_prev = EuroDerivative(dt),
                                               !.t_prev = call.sample.t]

\* an update with the timestamp of the update before it
C22_Witness ==
    /\ EuroLater /\ RawDelta = Zero
    /\ Euro.x_prev # Value
    /\ call.value.one_euro = EuroOutput(Epsilon)

\* an update less than 0.001 after the update before it
C22_BelowEpsilon ==
    /\ EuroLater /\ FLess(Zero, RawDelta) /\ FLess(RawDelta, Epsilon)
    /\ call.value.one_euro # EuroOutput(Epsilon)

\* the Kalman filter as the last update found it
Kalman == call.before.kalman
ErrorPrediction == FAdd(Kalman.error_estimate, trail.config.process_variance)
Gain == FDiv(ErrorPrediction, FAdd(ErrorPrediction, trail.config.measurement_variance))

\* C23: the first update after construction or reset sets the estimate to
\* the measurement, returns it and leaves error_estimate at 1.0; every later
\* update returns and stores estimate + gain * (measurement - estimate) and
\* stores (1 - gain) * error_prediction, with error_prediction =
\* error_estimate + process_variance and gain = error_prediction /
\* (error_prediction + measurement_variance).
C23_Kalman ==
    /\ (Update /\ Len(trail.inputs) = 1) =>
           /\ Kalman.estimate = None
           /\ call.value.kalman = Value
           /\ filters.kalman.estimate = Value
           /\ filters.kalman.error_estimate = FromInt(1)
    /\ (Update /\ Len(trail.inputs) > 1) =>
           /\ Kalman.estimate # None
           /\ call.value.kalman =
                  FAdd(Kalman.estimate, FMul(Gain, FSub(Value, Kalman.estimate)))
           /\ filters.kalman.estimate = call.value.kalman
           /\ filters.kalman.error_estimate =
                  FMul(FSub(FromInt(1), Gain), ErrorPrediction)
    /\ filters.kalman.process_variance = trail.config.process_variance
    /\ filters.kalman.measurement_variance = trail.config.measurement_variance

\* a third update, with a process variance that counts and another value:
\* the error estimate has left 1.0 and the estimate moves
C23_Witness ==
    /\ Update /\ Len(trail.inputs) = 3
    /\ Kalman.error_estimate # FromInt(1)
    /\ ErrorPrediction # Kalman.error_estimate
    /\ Kalman.estimate # Value
    /\ call.value.kalman # Value /\ call.value.kalman # Kalman.estimate
    /\ filters.kalman.error_estimate # Kalman.error_estimate

----------------------------------------------------------------------------
(* The mouse controller *)

Mapped == call.op = "map_to_screen"
Scrolled == call.op = "scroll"

\* x' * screen_dim * sensitivity, with x' = clamp((x - m) / (1 - 2m), 0, 1)
Scaled(x, screen_dim) ==
    LET m == mouse.margin
        cropped == FDiv(FSub(x, m), FSub(One, FMul(FromInt(2), m)))
        unit == IF FLess(cropped, Zero) THEN Zero
                ELSE IF FLess(One, cropped) THEN One ELSE cropped
    IN  FMul(FMul(unit, FromInt(screen_dim)), mouse.sensitivity)

Clamp(n, lo, hi) == IF n < lo THEN lo ELSE IF n > hi THEN hi ELSE n

\* C16: for x and y in [0, 1], any sensitivity and any screen, map_to_screen
\* returns a pixel of the screen.
C16_OnScreen ==
    Mapped =>
        /\ call.value[1] \in 0..(mouse.screen_width - 1)
        /\ call.value[2] \in 0..(mouse.screen_height - 1)

\* the scaled product lies beyond the screen on one axis and below zero or
\* on the screen on the other
C16_Witness ==
    /\ Mapped
    /\ mouse.screen_width > 1
    /\ FTrunc(Scaled(call.x, mouse.screen_width)) >= mouse.screen_width
    /\ call.value[1] = mouse.screen_width - 1

\* a negative sensitivity: the scaled product lies below zero
C16_Negative ==
    /\ Mapped
    /\ FTrunc(Scaled(call.x, mouse.screen_width)) < 0
    /\ call.value[1] = 0

\* C17 as claimed: map_to_screen returns, on each axis,
\* clamp(round(x' * screen_dim * sensitivity), 0, screen_dim - 1).
C17_Rounded ==
    Mapped =>
        /\ call.value[1] = Clamp(FRoundInt(Scaled(call.x, mouse.screen_width)),
                                 0, mouse.screen_width - 1)
        /\ call.value[2] = Clamp(FRoundInt(Scaled(call.y, mouse.screen_height)),
                                 0, mouse.screen_height - 1)

\* C17 amended: the scaled product is cut to its integer part (towards
\* zero), not rounded, before the final clamp.
C17_Truncated ==
    Mapped =>
        /\ call.value[1] = Clamp(FTrunc(Scaled(call.x, mouse.screen_width)),
                                 0, mouse.screen_width - 1)
        /\ call.value[2] = Clamp(FTrunc(Scaled(call.y, mouse.screen_height)),
                                 0, mouse.screen_height - 1)

\* a scaled product on the screen whose nearest integer is not its integer part
C17_Witness ==
    /\ Mapped
    /\ FRoundInt(Scaled(call.x, mouse.screen_width)) \in 1..(mouse.screen_width - 1)
    /\ FRoundInt(Scaled(call.x, mouse.screen_width))
           # FTrunc(Scaled(call.x, mouse.screen_width))
    /\ call.value[1] = FTrunc(Scaled(call.x, mouse.screen_width))

\* what scroll handed to the sink: the units of its one call, 0 without a call
Units == IF call.sink = <<>> THEN 0 ELSE call.sink[1].units

\* -delta_y * scroll_sensitivity * 100
ScaledDelta == FMul(FMul(FNeg(call.delta_y), mouse.scroll_sensitivity), FromInt(100))

\* C18 as claimed: scroll hands the sink round(-delta_y * scroll_sensitivity
\* * 100) units, negative for delta_y > 0 and positive for delta_y < 0.
C18_RoundedUnits ==
    Scrolled =>
        /\ Units = FRoundInt(ScaledDelta)
        /\ FLess(Zero, call.delta_y) => Units < 0
        /\ FLess(call.delta_y, Zero) => Units > 0

\* C18 amended: the amount is the integer part (towards zero) of the scaled
\* value; scroll hands it to the sink in one call when it is not 0 and makes
\* no call when it is 0; an amount that is not 0 has the sign opposite to
\* that of delta_y (scroll_sensitivity being positive).
C18_TruncatedUnits ==
    Scrolled =>
        /\ Len(call.sink) <= 1
        /\ Units = FTrunc(ScaledDelta)
        /\ call.sink # <<>> => call.sink[1] = [op |-> "scroll", units |-> Units]
        /\ call.sink = <<>> <=> FTrunc(ScaledDelta) = 0
        /\ (FLess(Zero, call.delta_y) /\ FLess(Zero, mouse.scroll_sensitivity))
               => Units <= 0
        /\ (FLess(call.delta_y, Zero) /\ FLess(Zero, mouse.scroll_sensitivity))
               => Units >= 0

\* a downward motion whose scaled value is not whole: the sink gets the
\* integer part, negative
C18_Witness ==
    /\ Scrolled /\ FLess(Zero, call.delta_y)
    /\ Units < 0
    /\ FRoundInt(ScaledDelta) # FTrunc(ScaledDelta)

\* what map_to_screen returned on the axis, the coordinate it was given
\* and the size of the screen on the axis: 1 is x, 2 is y
Pixel(axis) == call.value[axis]
Given(axis) == IF axis = 1 THEN call.x ELSE call.y
ScreenDim(axis) == IF axis = 1 THEN mouse.screen_width ELSE mouse.screen_height

AtOrBelowMargin(x) == FLessEq(x, mouse.margin)
AtOrAboveFarMargin(x) == FLessEq(FSub(FromInt(1), mouse.margin), x)

\* C28 as claimed: for every sensitivity the controller can hold, an input
\* at or below the margin maps to pixel 0 and an input at or above
\* 1 - margin maps to pixel screen_dim - 1, on each axis.
C28_SpansScreen ==
    Mapped =>
        \A axis \in {1, 2} :
            /\ AtOrBelowMargin(Given(axis)) => Pixel(axis) = 0
            /\ AtOrAboveFarMargin(Given(axis)) => Pixel(axis) = ScreenDim(axis) - 1

\* C28 amended: an input at or below the margin maps to pixel 0 for every
\* sensitivity; an input at or above 1 - margin maps to pixel screen_dim - 1
\* when the sensitivity is 1 or more, and to no more than the integer part
\* of screen_dim * sensitivity (clamped to the screen) when it is less. The
\* sensitivity set_sensitivity leaves is its argument clamped into
\* [0.1, 5.0], so it can be less than 1.
C28_SpansScreenFromOne ==
    /\ Mapped =>
           \A axis \in {1, 2} :
               /\ AtOrBelowMargin(Given(axis)) => Pixel(axis) = 0
               /\ (AtOrAboveFarMargin(Given(axis))
                      /\ FLessEq(FromInt(1), mouse.sensitivity))
                     => Pixel(axis) = ScreenDim(axis) - 1
               /\ (AtOrAboveFarMargin(Given(axis))
                      /\ FLess(mouse.sensitivity, FromInt(1)))
                     => Pixel(axis) <=
                            Clamp(FTrunc(FMul(FromInt(ScreenDim(axis)),
                                              mouse.sensitivity)),
                                  0, ScreenDim(axis) - 1)
    /\ call.op = "set_sensitivity" =>
           mouse.sensitivity =
               (IF FLess(call.sensitivity, Float(1, 10)) THEN Float(1, 10)
                ELSE IF FLess(FromInt(5), call.sensitivity) THEN FromInt(5)
                ELSE call.sensitivity)

\* sensitivity 1: the margin goes to pixel 0 and 1 - margin to the last
\* pixel of a screen of more than one pixel
C28_Witness ==
    /\ Mapped /\ mouse.sensitivity = FromInt(1)
    /\ mouse.screen_width > 1 /\ mouse.screen_height > 1
    /\ call.x = mouse.margin /\ Pixel(1) = 0
    /\ call.y = FSub(FromInt(1), mouse.margin) /\ Pixel(2) = mouse.screen_height - 1

\* a sensitivity below 1 left by set_sensitivity: 1 - margin and above stay
\* short of the last pixel
C28_Short ==
    /\ Mapped /\ FLess(mouse.sensitivity, FromInt(1))
    /\ FLess(Zero, mouse.sensitivity)
    /\ AtOrAboveFarMargin(call.x)
    /\ Pixel(1) < mouse.screen_width - 1

----------------------------------------------------------------------------
(* The threads *)

\* the worker is between the return of detect_gesture and the end of
\* _execute_gesture: it is executing a tick on the mouse controller
WorkerInTick == app.worker.pc \in {"execute", "map_y", "filter"}

\* the GUI thread is inside update_mouse_settings: it has written the
\* sensitivity of the mouse controller and is about to write its alpha
GuiInUpdate == app.gui.pc = "set_smoothing"

\* C27: while the worker thread is executing a tick, no other thread reads
\* or writes the state of the detector or of the mouse controller.
C27_OneDriver ==
    ~(WorkerInTick /\ GuiInUpdate)

\* one move of the cursor whose x was scaled by one sensitivity and whose y
\* by another
C27_TornMove ==
    /\ app.is_tracking /\ call.op = "move_cursor"
    /\ call.sensitivity[1] # call.sensitivity[2]

----------------------------------------------------------------------------
(* The range of the inputs *)

\* the least and the greatest of the values given since construction or the
\* last reset
Lowest == CHOOSE v \in {trail.inputs[i] : i \in 1..Len(trail.inputs)} :
              \A i \in 1..Len(trail.inputs) : FLessEq(v, trail.inputs[i])
Highest == CHOOSE v \in {trail.inputs[i] : i \in 1..Len(trail.inputs)} :
               \A i \in 1..Len(trail.inputs) : FLessEq(trail.inputs[i], v)

InRange(x) == FLessEq(Lowest, x) /\ FLessEq(x, Highest)

\* C33 as claimed: every output of update of the four filters lies between
\* the least and the greatest input given since the last reset (or
\* construction).
C33_NoOvershoot ==
    Update =>
        /\ InRange(call.value.ema)
        /\ InRange(call.value.moving_average)
        /\ InRange(call.value.one_euro)
        /\ InRange(call.value.kalman)

\* C33 amended: the first output after construction or a reset is the input,
\* from each of the four filters; every output of EMA lies in the range of
\* the inputs when alpha is 0 or 1; every output of Moving Average does while
\* its window holds at most two samples.
C33_NoOvershootExact ==
    Update =>
        /\ Len(trail.inputs) = 1 =>
               /\ call.value.ema = Value /\ call.value.moving_average = Value
               /\ call.value.one_euro = Value /\ call.value.kalman = Value
        /\ filters.ema.alpha \in {Zero, One} => InRange(call.value.ema)
        /\ Len(filters.moving_average.values.items) <= 2 =>
               InRange(call.value.moving_average)

\* a window of two different samples after three updates, with alpha 0 or 1
C33_Witness ==
    /\ Update /\ Len(trail.inputs) = 3 /\ Lowest # Highest
    /\ filters.ema.alpha \in {Zero, One}
    /\ Len(filters.moving_average.values.items) = 2
    /\ filters.moving_average.values.items[1] # filters.moving_average.values.items[2]
    /\ InRange(call.value.ema) /\ InRange(call.value.moving_average)
    /\ call.value.moving_average \notin {Lowest, Highest}

\* an output of EMA, and of Moving Average, outside the range of the inputs
\* by a rounding error
C33_EmaOvershoots == Update /\ ~InRange(call.value.ema)
C33_MeanOvershoots == Update /\ ~InRange(call.value.moving_average)

----------------------------------------------------------------------------
(* The moves of the cursor *)

\* C34: every pair of coordinates move_cursor hands to the sink lies on the
\* screen, in [0, screen_width - 1] x [0, screen_height - 1], with and
\* without smoothing, whatever moves and changes of the sensitivity and of
\* the smoothing, and whatever resets of the smoothing, came before.
C34_MoveOnScreen ==
    call.op = "move_cursor" =>
        /\ Len(call.sink) = 1
        /\ \A i \in 1..Len(call.sink) :
               /\ call.sink[i].op = "moveTo"
               /\ 0 <= call.sink[i].x /\ call.sink[i].x <= mouse.screen_width - 1
               /\ 0 <= call.sink[i].y /\ call.sink[i].y <= mouse.screen_height - 1

\* a smoothed move towards the far edge of the screen in x that stops short
\* of it, the smoothed position being elsewhere, with an alpha strictly
\* between 0 and 1 and the sensitivity at its greatest
C34_Witness ==
    /\ call.op = "move_cursor" /\ call.smooth
    /\ mouse.smoothing_filter.alpha \notin {Zero, One}
    /\ mouse.sensitivity = FromInt(5)
    /\ map_axis(mouse, call.x, mouse.screen_width) = mouse.screen_width - 1
    /\ 0 < call.sink[1].x /\ call.sink[1].x < mouse.screen_width - 1

----------------------------------------------------------------------------
(* The gestures that are switched off *)

\* the tick of the worker has gone through _execute_gesture: event is what
\* detect_gesture returned, call what _execute_gesture read, returned and
\* handed to the sink so far
Executed ==
    /\ app.is_tracking /\ app.worker.pc # "execute"
    /\ call.op \in {"_execute_gesture", "move_cursor"}

\* what went to the sink
Sunk(kind) == \E i \in 1..Len(call.sink) : call.sink[i].op = kind

MoveUnderWay == app.worker.pc \in {"map_y", "filter"}

C35_MoveAfterToggle ==
    /\ Executed /\ Sunk("moveTo")
    /\ ~app.config.gestures.cursor_control_enabled

----------------------------------------------------------------------------
(* Stopping, pausing and the tray *)

\* the GUI thread called stop() last, on a worker that was in its loop: at
\* the top of it or anywhere in a tick
InLoop == {"loop", "read", "cap_read", "detect_hand", "detect_gesture", "execute", "map_y", "filter"}
StopCalledInLoop == app.gui.called = "stop" /\ app.gui.at \in InLoop

\* C36: once stop() has been called on a worker whose run() loop is
\* executing, run() returns in the end, whether the worker is paused, gets
\* no frames or is in the middle of a tick.
C36_StopTerminates ==
    StopCalledInLoop ~> app.worker.pc = "returned"

\* run() has returned after a stop() that found the worker paused and in
\* the middle of a tick
C36_Witness ==
    /\ StopCalledInLoop /\ app.gui.at = "execute" /\ app.worker.is_paused
    /\ app.worker.pc = "returned"

\* stop() called between the start of the thread and the first statement of
\* run(), which then sets is_running: the loop goes on and the GUI thread
\* waits
C36_StoppedTooEarly ==
    /\ app.gui.called = "stop" /\ app.gui.at = "start"
    /\ app.worker.pc = "loop" /\ app.worker.is_running
    /\ app.gui.pc = "stop"

\* C37: the worker calls neither cap.read() on a released capture nor
\* hand_detector.detect on a closed detector, and stop() closes the hand
\* detector of one worker at most once.
C37_NoReleasedResource ==
    /\ call.op = "cap.read" => ~call.released
    /\ call.op = "detect" => ~call.closed
    /\ app.worker.hand_detector => app.worker.stops <= 1

\* the three ways: stop() between the test of is_active and cap.read(),
\* stop() between read_frame and detect, and a second stop() of the same
\* worker by a window closing or an exit after the stop button
C37_ReadAfterRelease == call.op = "cap.read" /\ call.released
C37_DetectAfterClose == call.op = "detect" /\ call.closed
C37_ClosedTwice ==
    /\ app.worker.hand_detector /\ app.worker.stops = 2
    /\ app.gui.pc \in {"window closing", "exit"}

\* the worker thread was started and run has not returned
WorkerRunning == app.worker.pc \notin {"none", "unstarted", "returned"}

\* C38: between two handlers of the GUI thread, a tray that says tracking
\* means an application that says tracking and a worker that runs and is
\* not paused.
C38_TrayClaimsNoMore ==
    (app.gui.pc = "idle" /\ app.tray.is_tracking)
        => (app.is_tracking /\ WorkerRunning /\ ~app.worker.is_paused)

\* Pause/Resume chosen in the tray after a stop, and after an initialize
\* that failed: _on_resume_tracking finds the old worker
C38_ResumedAfterStop ==
    /\ app.gui.pc = "idle" /\ app.gui.called = "resume"
    /\ app.tray.is_tracking /\ ~app.is_tracking /\ app.worker.pc = "returned"
C38_ResumedAfterFailure ==
    /\ app.gui.pc = "idle" /\ app.gui.called = "resume"
    /\ app.tray.is_tracking /\ ~app.is_tracking /\ app.worker.pc = "unstarted"

\* the worker is paused before and after the step
StaysPaused == app.worker.is_paused /\ app'.worker.is_paused

\* the step is a detect_gesture tick; the step hands a move, a click or a
\* scroll to the sink
TickStep == app.worker.pc = "detect_gesture" /\ app'.worker.pc = "execute"
SinkStep ==
    \/ app.worker.pc = "execute" /\ app'.worker.pc = "loop" /\ call'.sink # <<>>
    \/ app.worker.pc = "filter" /\ app'.worker.pc = "loop"

\* C40 as stated: while the worker is paused there is no detect_gesture
\* tick, nothing is handed to the sink and the detector does not change.
C40_PauseAtOnce ==
    [][StaysPaused => (~TickStep /\ ~SinkStep /\ detector' = detector)]_vars

\* C40: a paused worker that has come to the top of its loop stays there
\* (or returns, when stopped): no tick, nothing for the sink, the detector
\* as it is; and the worker has run at most one detect_gesture tick, the one
\* in progress, since pause() returned.
C40_PauseAtLoopTop ==
    /\ [](app.worker.is_paused => app.worker.ticks - app.worker.paused_at <= 1)
    /\ [][(StaysPaused /\ app.worker.pc = "loop")
            => /\ app'.worker.pc \in {"loop", "returned"}
               /\ app'.worker.ticks = app.worker.ticks
               /\ call' = call
               /\ detector' = detector]_vars

\* pause() found the worker in a tick, before detect_gesture; the worker
\* finished that tick and now sleeps at the top of the loop
C40_Witness ==
    /\ app.worker.is_paused /\ app.gui.called = "pause"
    /\ app.gui.at \in {"read", "cap_read", "detect_hand", "detect_gesture"}
    /\ app.worker.pc = "loop" /\ app.worker.is_running
    /\ app.worker.ticks = app.worker.paused_at + 1

\* a cursor move handed to the sink by a paused worker
C40_MoveWhilePaused ==
    /\ app.worker.is_paused /\ app.gui.called = "pause"
    /\ call.op = "move_cursor" /\ app.worker.pc = "loop"
    /\ app.worker.ticks = app.worker.paused_at + 1

----------------------------------------------------------------------------
(* The configuration *)

\* C39: after reset_to_defaults, and in a ConfigManager just constructed
\* without a file, get returns the value of the class body for every key
\* of every section.
C39_ResetRestoresDefaults ==
    call.op \in {"reset_to_defaults", "__init__"}
        => \A section \in DOMAIN DefaultSections :
               \A key \in DOMAIN DefaultSections[section] :
                   get(app.managers[call.manager], app.objects, section, key)
                       = DefaultSections[section][key]

\* the section dicts of DEFAULT_CONFIG themselves are changed by set: after
\* a reset the manager reads the value that was set; a new manager does
C39_ResetKeepsSetValue ==
    /\ call.op = "reset_to_defaults"
    /\ get(app.managers[call.manager], app.objects, "gestures", "left_click_enabled")
           = FALSE
C39_NewManagerSeesSetValue ==
    /\ call.op = "__init__" /\ call.manager = 2
    /\ get(app.managers[2], app.objects, "mouse", "sensitivity") = One

====
